---- MODULE Spec2Model ----
(***************************************************************************)
(* Spider Solitaire: the rules engine (src/src/lib/gameLogic.ts) and the   *)
(* game store that drives it (src/src/lib/gameStore.svelte.ts).            *)
(*                                                                         *)
(* Arrays are sequences; the code's 0-based indices are kept in every      *)
(* interface (pile indices 0..9, card indices 0..length-1) and converted   *)
(* where a sequence is read.  A card is the record the code builds,        *)
(* [id, suit, rank, faceUp]; its id stands for the value of globalCardId   *)
(* that createDeck puts at the end of the id string (the part of the       *)
(* string that makes it unique).                                           *)
(***************************************************************************)
EXTENDS Integers, Sequences, FiniteSets, TLC

VARIABLES
    state,              \* game.state: GameState
    history,            \* game.history: MoveHistory[]
    selectedPile,       \* game.selectedPile: number | null
    selectedCardIndex,  \* game.selectedCardIndex: number | null
    initialState,       \* game.initialState: the deal restartGame goes back to
    hint,               \* game.hint: MeaningfulMove | null
    globalCardId,       \* gameLogic.ts module counter behind the card ids
    timers,             \* number of callbacks that showHint has handed to setTimeout
                        \* and that have not run yet
    startState,         \* history variable: game.state when history was last emptied by
                        \* the constructor, newGame or restartGame
    lastCall,           \* history variable: the last call made on the game object
    ops                 \* number of counted calls made since the initial state

vars == <<state, history, selectedPile, selectedCardIndex, initialState, hint,
          globalCardId, timers, startState, lastCall, ops>>

-----------------------------------------------------------------------------
(* JavaScript values and array helpers *)

null == -1
undefined == "undefined"
nullCard == [id |-> null, suit |-> "null", rank |-> "null", faceUp |-> FALSE]

At(arr, i) == arr[i + 1]
Min(a, b) == IF a < b THEN a ELSE b
Max(a, b) == IF a > b THEN a ELSE b
\* arr.slice(from, to) for 0 <= from
Slice(arr, from, to) == SubSeq(arr, from + 1, Min(to, Len(arr)))
\* arr.slice(from)
SliceFrom(arr, from) == SubSeq(arr, from + 1, Len(arr))
\* arr.slice(0, -n) for n > 0
DropLast(arr, n) == SubSeq(arr, 1, Len(arr) - n)
\* arr.findIndex(c => c.id === id), 0-based, -1 when absent
FindIndexById(cards, id) ==
    IF \E k \in 1..Len(cards) : cards[k].id = id
    THEN (CHOOSE k \in 1..Len(cards) :
             /\ cards[k].id = id
             /\ \A m \in 1..(k - 1) : cards[m].id # id) - 1
    ELSE -1
\* the array <<f[lo], ..., f[hi]>>, built by halves to keep the evaluation shallow
RECURSIVE MapRange(_, _, _)
MapRange(f, lo, hi) ==
    IF lo > hi THEN <<>>
    ELSE IF lo = hi THEN <<f[lo]>>
    ELSE MapRange(f, lo, (lo + hi) \div 2) \o MapRange(f, ((lo + hi) \div 2) + 1, hi)

\* Array.from / map: the array of f[1], ..., f[n], for f with domain 1..n
MapTo(f) == MapRange(f, 1, Cardinality(DOMAIN f))

\* a loop over 1..n that pushes f[k] (an array of one element) when keep[k]
RECURSIVE CollectTo(_, _, _)
CollectTo(keep, f, n) ==
    IF n = 0 THEN <<>>
    ELSE CollectTo(keep, f, n - 1) \o (IF keep[n] THEN f[n] ELSE <<>>)
Collect(keep, f) == CollectTo(keep, f, Cardinality(DOMAIN f))

\* what a loop over lo..hi leaves in an array when round k pushes the elements of
\* f[k] (by halves, to keep the evaluation shallow)
RECURSIVE PushedRange(_, _, _)
PushedRange(f, lo, hi) ==
    IF lo > hi THEN <<>>
    ELSE IF lo = hi THEN f[lo]
    ELSE PushedRange(f, lo, (lo + hi) \div 2) \o PushedRange(f, ((lo + hi) \div 2) + 1, hi)

-----------------------------------------------------------------------------
(* gameLogic.ts *)

allSuits == <<"spades", "hearts", "diamonds", "clubs">>
ranks == <<"A", "2", "3", "4", "5", "6", "7", "8", "9", "10", "J", "Q", "K">>
rankValues ==
    ("A" :> 1) @@ ("2" :> 2) @@ ("3" :> 3) @@ ("4" :> 4) @@ ("5" :> 5) @@
    ("6" :> 6) @@ ("7" :> 7) @@ ("8" :> 8) @@ ("9" :> 9) @@ ("10" :> 10) @@
    ("J" :> 11) @@ ("Q" :> 12) @@ ("K" :> 13)

Difficulties == {"easy", "medium", "hard"}

\* (a variant of suitsToUse whose medium game has 5 sub-decks of spades)
suitsToUseUneven(difficulty) ==
    CASE difficulty = "easy" ->
           <<"spades", "spades", "spades", "spades", "spades", "spades", "spades", "spades">>
      [] difficulty = "medium" ->
           <<"spades", "spades", "spades", "spades", "spades", "hearts", "hearts", "hearts">>
      [] difficulty = "hard" ->
           <<"spades", "spades", "hearts", "hearts", "diamonds", "diamonds", "clubs", "clubs">>

suitsToUse(difficulty) ==
    CASE difficulty = "easy" ->
           <<"spades", "spades", "spades", "spades", "spades", "spades", "spades", "spades">>
      [] difficulty = "medium" ->
           <<"spades", "spades", "spades", "spades", "hearts", "hearts", "hearts", "hearts">>
      [] difficulty = "hard" ->
           <<"spades", "spades", "hearts", "hearts", "diamonds", "diamonds", "clubs", "clubs">>

\* (a variant of createDeck that numbers the cards of every deck from 0)
createDeckLocalIds(difficulty, cardId) ==
    LET suits == suitsToUse(difficulty)
        n == Len(suits) * Len(ranks)
        card(k) == [id |-> k - 1,
                    suit |-> suits[((k - 1) \div Len(ranks)) + 1],
                    rank |-> ranks[((k - 1) % Len(ranks)) + 1],
                    faceUp |-> FALSE]
    IN  [deck |-> MapTo([k \in 1..n |-> card(k)]),
         globalCardId |-> cardId + n]

\* (a variant of createDeck that makes the cards face-up)
createDeckFaceUp(difficulty, cardId) ==
    LET suits == suitsToUse(difficulty)
        n == Len(suits) * Len(ranks)
        card(k) == [id |-> cardId + (k - 1),
                    suit |-> suits[((k - 1) \div Len(ranks)) + 1],
                    rank |-> ranks[((k - 1) % Len(ranks)) + 1],
                    faceUp |-> TRUE]
    IN  [deck |-> MapTo([k \in 1..n |-> card(k)]),
         globalCardId |-> cardId + n]

\* createDeck(difficulty), reading the counter at cardId: the deck, in creation
\* order (suit by suit, ranks A..K), and the counter after it
createDeck(difficulty, cardId) ==
    LET suits == suitsToUse(difficulty)
        n == Len(suits) * Len(ranks)
        card(k) == [id |-> cardId + (k - 1),
                    suit |-> suits[((k - 1) \div Len(ranks)) + 1],
                    rank |-> ranks[((k - 1) % Len(ranks)) + 1],
                    faceUp |-> FALSE]
    IN  [deck |-> MapTo([k \in 1..n |-> card(k)]),
         globalCardId |-> cardId + n]

\* (a variant of Swap that assigns one of the two elements only)
SwapOneWay(arr, i, j) == [arr EXCEPT ![i + 1] = arr[j + 1]]

\* [shuffled[i], shuffled[j]] = [shuffled[j], shuffled[i]]
Swap(arr, i, j) ==
    [arr EXCEPT ![i + 1] = arr[j + 1], ![j + 1] = arr[i + 1]]

\* The iterations i = hi, hi - 1, ..., lo of the Fisher-Yates loop, in that order
\* (the upper half of the range, then the lower half: the same sequence of swaps,
\* grouped so that the evaluation stays shallow).  js[i] is the value of
\* Math.floor(Math.random() * (i + 1)) drawn in iteration i, in 0..i.
RECURSIVE shuffleLoop(_, _, _, _)
shuffleLoop(shuffled, hi, lo, js) ==
    IF hi < lo THEN shuffled
    ELSE IF hi = lo THEN Swap(shuffled, hi, js[hi])
    ELSE LET upper == shuffleLoop(shuffled, hi, ((hi + lo) \div 2) + 1, js)
         IN  \* (the test has the upper half evaluated before the lower half starts)
             IF Len(upper) = Len(shuffled) THEN shuffleLoop(upper, (hi + lo) \div 2, lo, js)
             ELSE upper

\* for (let i = shuffled.length - 1; i > 0; i--)
shuffleDeck(deck, js) == shuffleLoop(deck, Len(deck) - 1, 1, js)

\* the caller's array after shuffleDeck(deck): the loop writes to the copy
\* shuffled = [...deck] only
deckAfterShuffle(deck, js) == deck

\* (a variant of numCards that gives a fifth column 6 cards)
numCardsOneMore(col) == IF col <= 4 THEN 6 ELSE 5

numCards(col) == IF col < 4 THEN 6 ELSE 5

\* the value of cardIndex when the deal reaches column col
RECURSIVE firstCardIndex(_)
firstCardIndex(col) ==
    IF col = 0 THEN 0 ELSE firstCardIndex(col - 1) + numCards(col - 1)

\* initializeGame(difficulty) with the counter at cardId and the shuffle's
\* random draws js: the GameState and the counter afterwards
initializeGame(difficulty, cardId, js) ==
    LET made == createDeck(difficulty, cardId)
        deck == shuffleDeck(made.deck, js)
        column(c) ==
            LET dealt(row) == [At(deck, firstCardIndex(c - 1) + (row - 1))
                                  EXCEPT !.faceUp = (row - 1 = numCards(c - 1) - 1)]
            IN  [cards |-> MapTo([k \in 1..numCards(c - 1) |-> dealt(k)])]
    IN  [state |-> [tableau |-> MapTo([k \in 1..10 |-> column(k)]),
                    stock |-> SliceFrom(deck, firstCardIndex(10)),
                    completedSequences |-> <<>>,
                    moves |-> 0,
                    gameWon |-> FALSE,
                    difficulty |-> difficulty],
         globalCardId |-> made.globalCardId]

\* (a variant of canPlaceCard that also asks for the same suit)
canPlaceCardSameSuit(cardToPlace, targetCard) ==
    \/ targetCard = nullCard
    \/ /\ rankValues[cardToPlace.rank] = rankValues[targetCard.rank] - 1
       /\ cardToPlace.suit = targetCard.suit

\* (a variant of canPlaceCard with the ranks the other way round)
canPlaceCardUpward(cardToPlace, targetCard) ==
    IF targetCard = nullCard THEN TRUE
    ELSE rankValues[cardToPlace.rank] = rankValues[targetCard.rank] + 1

canPlaceCard(cardToPlace, targetCard) ==
    IF targetCard = nullCard THEN TRUE
    ELSE rankValues[cardToPlace.rank] = rankValues[targetCard.rank] - 1

getMovableCards(pile, startIndex) ==
    LET cards == SliceFrom(pile.cards, startIndex)
    IN  IF \E i \in 0..(Len(cards) - 2) :
               rankValues[At(cards, i).rank] # rankValues[At(cards, i + 1).rank] + 1
        THEN <<>>
        ELSE cards

\* (a variant of validWindow that does not look at the faces of the cards)
validWindowAnyFace(pile, i) ==
    LET sequence == Slice(pile.cards, i, i + 13)
        suit == At(sequence, 0).suit
    IN  \A j \in 0..12 : /\ At(sequence, j).suit = suit
                          /\ At(sequence, j).rank = At(ranks, 12 - j)

\* one candidate window of checkForCompletedSequence, starting at index i
validWindow(pile, i) ==
    LET sequence == Slice(pile.cards, i, i + 13)
        suit == At(sequence, 0).suit
    IN  /\ \A j \in 0..12 : At(sequence, j).faceUp
        /\ \A j \in 0..12 : /\ At(sequence, j).suit = suit
                            /\ At(sequence, j).rank = At(ranks, 12 - j)

\* the for loop of checkForCompletedSequence, from index i down to 0
RECURSIVE scanWindows(_, _)
scanWindows(pile, i) ==
    IF i < 0 THEN [completed |-> FALSE, startIndex |-> -1, suit |-> undefined]
    ELSE IF validWindow(pile, i)
         THEN [completed |-> TRUE, startIndex |-> i, suit |-> At(pile.cards, i).suit]
         ELSE scanWindows(pile, i - 1)

checkForCompletedSequence(pile) ==
    IF Len(pile.cards) < 13
    THEN [completed |-> FALSE, startIndex |-> -1, suit |-> undefined]
    ELSE scanWindows(pile, Len(pile.cards) - 13)

\* (a variant of dealFromStock that takes one card too few off the stock)
dealFromStockShort(st) ==
    IF Len(st.stock) < 10 THEN st
    ELSE [st EXCEPT
            !.tableau = MapTo([k \in 1..Len(st.tableau) |->
                                  [cards |-> Append(st.tableau[k].cards,
                                                    [st.stock[k] EXCEPT !.faceUp = TRUE])]]),
            !.stock = SliceFrom(st.stock, 9),
            !.moves = st.moves + 1]

\* (a variant of dealFromStock that leaves the dealt cards face-down)
dealFromStockFaceDown(st) ==
    IF Len(st.stock) < 10 THEN st
    ELSE [st EXCEPT
            !.tableau = MapTo([k \in 1..Len(st.tableau) |->
                                  [cards |-> Append(st.tableau[k].cards, st.stock[k])]]),
            !.stock = SliceFrom(st.stock, 10),
            !.moves = st.moves + 1]

dealFromStock(st) ==
    IF Len(st.stock) < 10 THEN st
    ELSE LET dealtOn(index) ==
                 [cards |-> Append(st.tableau[index].cards,
                                   [st.stock[index] EXCEPT !.faceUp = TRUE])]
         IN
         [st EXCEPT
            !.tableau = MapTo([k \in 1..Len(st.tableau) |-> dealtOn(k)]),
            !.stock = SliceFrom(st.stock, 10),
            !.moves = st.moves + 1]

\* the for loop of getSequenceLengthFromEnd, from index i down to 0
RECURSIVE sequenceLengthLoop(_, _, _, _)
sequenceLengthLoop(cards, i, suit, length) ==
    IF i < 0 THEN length
    ELSE LET currentCard == At(cards, i)
             nextCard == At(cards, i + 1)
         IN  IF ~currentCard.faceUp \/ currentCard.suit # suit THEN length
             ELSE IF rankValues[currentCard.rank] # rankValues[nextCard.rank] + 1 THEN length
             ELSE sequenceLengthLoop(cards, i - 1, suit, length + 1)

\* (a variant of getSequenceLengthFromEnd that finds no run at all)
getSequenceLengthFromEndNone(pile) == 0

\* (a variant of MeaningfulMove that takes the target for the source)
MeaningfulMoveReversed(sourcePile, cardIndex, targetPile, priority, reason) ==
    [sourcePile |-> targetPile, cardIndex |-> cardIndex, targetPile |-> sourcePile,
     priority |-> priority, reason |-> reason]

getSequenceLengthFromEnd(pile) ==
    IF Len(pile.cards) = 0 THEN 0
    ELSE LET lastCard == At(pile.cards, Len(pile.cards) - 1)
         IN  IF ~lastCard.faceUp THEN 0
             ELSE sequenceLengthLoop(pile.cards, Len(pile.cards) - 2, lastCard.suit, 1)

MeaningfulMove(sourcePile, cardIndex, targetPile, priority, reason) ==
    [sourcePile |-> sourcePile,
     cardIndex |-> cardIndex,
     targetPile |-> targetPile,
     priority |-> priority,
     reason |-> reason]

\* the body of the innermost loop of findMeaningfulMoves: what it pushes to moves
\* for the movable run at (sourcePileIdx, cardIdx) and the pile targetPileIdx
pushedForTarget(st, sourcePileIdx, cardIdx, targetPileIdx) ==
    LET sourcePile == At(st.tableau, sourcePileIdx)
        movableCards == getMovableCards(sourcePile, cardIdx)
        firstCard == At(movableCards, 0)
        wouldFlipCard == cardIdx > 0 /\ ~At(sourcePile.cards, cardIdx - 1).faceUp
        targetPile == At(st.tableau, targetPileIdx)
        targetCard == IF Len(targetPile.cards) = 0 THEN nullCard
                      ELSE At(targetPile.cards, Len(targetPile.cards) - 1)
        move(priority, reason) ==
            <<MeaningfulMove(sourcePileIdx, cardIdx, targetPileIdx, priority, reason)>>
        targetCurrentSeq == getSequenceLengthFromEnd(targetPile)
        potentialNewSeq == targetCurrentSeq + Len(movableCards)
        sourceSeqFromMovedCards == Len(movableCards)
        cardBefore == At(sourcePile.cards, cardIdx - 1)
    IN  IF targetPileIdx = sourcePileIdx THEN <<>>
        ELSE IF ~canPlaceCard(firstCard, targetCard) THEN <<>>
        ELSE IF targetCard = nullCard
             THEN IF wouldFlipCard THEN move(80, "Move to empty & flip card")
                  ELSE move(50, "Move to empty column")
        ELSE IF wouldFlipCard
             THEN IF firstCard.suit = targetCard.suit
                  THEN move(100, "Join same suit & flip card")
                  ELSE move(70, "Flip a face-down card")
        ELSE IF firstCard.suit = targetCard.suit
             THEN IF /\ cardIdx > 0
                     /\ cardBefore.faceUp
                     /\ cardBefore.suit = firstCard.suit
                     /\ rankValues[cardBefore.rank] = rankValues[firstCard.rank] + 1
                  THEN <<>>
                  ELSE IF potentialNewSeq > sourceSeqFromMovedCards
                       THEN move(60, "Build longer sequence")
                       ELSE <<>>
        ELSE <<>>

\* the body of the loop over cardIdx: what it pushes for the card at cardIdx
pushedForCard(st, sourcePileIdx, cardIdx) ==
    LET sourcePile == At(st.tableau, sourcePileIdx)
    IN  IF ~At(sourcePile.cards, cardIdx).faceUp THEN <<>>
        ELSE IF Len(getMovableCards(sourcePile, cardIdx)) = 0 THEN <<>>
        ELSE PushedRange([k \in 1..Len(st.tableau) |->
                             pushedForTarget(st, sourcePileIdx, cardIdx, k - 1)],
                         1, Len(st.tableau))

\* the array moves after the three loops: the candidates in the order the loops
\* find them
discovered(st) ==
    PushedRange([p \in 1..Len(st.tableau) |->
                    PushedRange([c \in 1..Len(st.tableau[p].cards) |->
                                    pushedForCard(st, p - 1, c - 1)],
                                1, Len(st.tableau[p].cards))],
                1, Len(st.tableau))

\* (a variant of firstOf for a sort that puts the lowest priority first)
firstOfAscending(priorities) == CHOOSE p \in priorities : \A q \in priorities : p <= q

\* the priority of the moves that the comparator b.priority - a.priority places
\* before all moves of the other priorities
firstOf(priorities) == CHOOSE p \in priorities : \A q \in priorities : q - p <= 0

\* moves.sort((a, b) => b.priority - a.priority), for the moves whose priority is
\* in priorities.  Array.prototype.sort is stable: moves that the comparator ranks
\* equal (the same priority) keep the order they have in moves
RECURSIVE sortedByPriority(_, _)
sortedByPriority(moves, priorities) ==
    IF priorities = {} THEN <<>>
    ELSE LET first == firstOf(priorities)
             isFirst(move) == move.priority = first
         IN  SelectSeq(moves, isFirst) \o sortedByPriority(moves, priorities \ {first})

findMeaningfulMoves(st) ==
    LET moves == discovered(st)
    IN  sortedByPriority(moves, {moves[k].priority : k \in 1..Len(moves)})

\* (a variant of hasValidMoves that only asks whether the stock can be dealt)
hasValidMovesByDealOnly(st) ==
    /\ Len(st.stock) >= 10
    /\ \A k \in 1..Len(st.tableau) : Len(st.tableau[k].cards) > 0

hasValidMoves(st) ==
    IF /\ Len(st.stock) >= 10
       /\ \A k \in 1..Len(st.tableau) : Len(st.tableau[k].cards) > 0
    THEN TRUE
    ELSE Len(findMeaningfulMoves(st)) > 0


-----------------------------------------------------------------------------
(* gameStore.svelte.ts: class SpiderSolitaireGame.  A handler is an operator *)
(* from the game object g (its fields) to the game object after the call.    *)

noFlip == <<>>
\* this.hint = null
noHint == <<>>

Pile(g, pileIndex) == At(g.state.tableau, pileIndex)

\* targetPile.cards[targetPile.cards.length - 1] || null
TopCard(pile) ==
    IF Len(pile.cards) = 0 THEN nullCard ELSE At(pile.cards, Len(pile.cards) - 1)

\* (a variant of FaceUpAt that leaves the card as it is)
FaceUpAtForgotten(cards, i) == cards
\* cards with the card at index i turned face-up / face-down
FaceUpAt(cards, i) == [cards EXCEPT ![i + 1].faceUp = TRUE]
\* (a variant of FaceDownAt that leaves the card as it is)
FaceDownAtForgotten(cards, i) == cards
FaceDownAt(cards, i) == [cards EXCEPT ![i + 1].faceUp = FALSE]

\* (a variant of canDeal that does not look at the piles)
canDealOntoEmpty(g) == Len(g.state.stock) >= 10

canDeal(g) ==
    /\ Len(g.state.stock) >= 10
    /\ \A i \in 1..Len(g.state.tableau) : Len(g.state.tableau[i].cards) > 0

\* (a variant of clearSelection that keeps the selection)
clearSelectionForgotten(g) == g

clearSelection(g) ==
    [g EXCEPT !.selectedPile = null, !.selectedCardIndex = null]

\* (a variant of checkedPile that leaves the new top card as it is)
checkedPileUnflipped(pile, i) ==
    LET result == checkForCompletedSequence(pile)
        remainingCards == Slice(pile.cards, 0, result.startIndex)
        flips == /\ Len(remainingCards) > 0
                 /\ ~At(remainingCards, Len(remainingCards) - 1).faceUp
    IN  IF result.completed
        THEN [completed |-> TRUE,
              cards |-> remainingCards,
              info |-> [pileIndex |-> i,
                        cards |-> Slice(pile.cards, result.startIndex, result.startIndex + 13),
                        suit |-> result.suit,
                        flippedCard |->
                            IF flips
                            THEN <<[cardId |-> At(remainingCards, Len(remainingCards) - 1).id]>>
                            ELSE noFlip],
              sequence |-> [id |-> <<result.suit, i>>, suit |-> result.suit]]
        ELSE [completed |-> FALSE, cards |-> pile.cards]

\* the tableau and the removals checkCompletedSequences computes for one pile
checkedPile(pile, i) ==
    LET result == checkForCompletedSequence(pile)
        completedCards == Slice(pile.cards, result.startIndex, result.startIndex + 13)
        remainingCards == Slice(pile.cards, 0, result.startIndex)
        flips == /\ Len(remainingCards) > 0
                 /\ ~At(remainingCards, Len(remainingCards) - 1).faceUp
    IN  IF result.completed
        THEN [completed |-> TRUE,
              cards |-> IF flips THEN FaceUpAt(remainingCards, Len(remainingCards) - 1)
                        ELSE remainingCards,
              info |-> [pileIndex |-> i,
                        cards |-> completedCards,
                        suit |-> result.suit,
                        flippedCard |->
                            IF flips
                            THEN <<[cardId |-> At(remainingCards, Len(remainingCards) - 1).id]>>
                            ELSE noFlip],
              sequence |-> [id |-> <<result.suit, i>>, suit |-> result.suit]]
        ELSE [completed |-> FALSE, cards |-> pile.cards]

\* (a variant of attachCompleted that records nothing)
attachNothing(hist, completedThisCheck) == hist

\* the end of checkCompletedSequences: the removals go into the last history record
attachCompleted(hist, completedThisCheck) ==
    IF Len(hist) > 0 /\ Len(completedThisCheck) > 0
    THEN [hist EXCEPT ![Len(hist)].completedSequences = completedThisCheck]
    ELSE hist

\* (a variant of checkCompletedSequences that takes no run off)
checkCompletedSequencesSkipped(g) == g

checkCompletedSequences(g) ==
    LET n == Len(g.state.tableau)
        check(k) == checkedPile(g.state.tableau[k], k - 1)
        checked == MapTo([k \in 1..n |-> check(k)])
        done(k) == checked[k].completed
        info(k) == IF done(k) THEN <<checked[k].info>> ELSE <<>>
        sequence(k) == IF done(k) THEN <<checked[k].sequence>> ELSE <<>>
        remaining(k) == [cards |-> checked[k].cards]
        completedThisCheck == Collect([k \in 1..n |-> done(k)], [k \in 1..n |-> info(k)])
        newCompletedSequences ==
            g.state.completedSequences
                \o Collect([k \in 1..n |-> done(k)], [k \in 1..n |-> sequence(k)])
        hasChanges == \E k \in 1..n : done(k)
    IN  IF hasChanges
        THEN [g EXCEPT
                !.state = [g.state EXCEPT
                    !.tableau = MapTo([k \in 1..n |-> remaining(k)]),
                    !.completedSequences = newCompletedSequences,
                    !.gameWon = (Len(newCompletedSequences) = 8)],
                !.history = attachCompleted(g.history, completedThisCheck)]
        ELSE g

\* moveCards once the move is accepted, up to (not including) its last statement
\* this.checkCompletedSequences()
moveAccepted(g, targetPileIndex) ==
    LET sourcePile == Pile(g, g.selectedPile)
        targetPile == Pile(g, targetPileIndex)
        cardsToMove == getMovableCards(sourcePile, g.selectedCardIndex)
        kept == Slice(sourcePile.cards, 0, g.selectedCardIndex)
        flips == Len(kept) > 0 /\ ~At(kept, Len(kept) - 1).faceUp
        newSourceCards == IF flips THEN FaceUpAt(kept, Len(kept) - 1) ELSE kept
        historyEntry ==
            [type |-> undefined,
             from |-> g.selectedPile,
             to |-> targetPileIndex,
             cards |-> cardsToMove,
             flippedCard |->
                 IF flips
                 THEN <<[pileIndex |-> g.selectedPile,
                         cardId |-> At(newSourceCards, Len(newSourceCards) - 1).id]>>
                 ELSE noFlip,
             dealtCards |-> <<>>,
             completedSequences |-> <<>>]
        moved(k) ==
            IF k - 1 = g.selectedPile THEN [cards |-> newSourceCards]
            ELSE IF k - 1 = targetPileIndex
                 THEN [cards |-> targetPile.cards \o cardsToMove]
                 ELSE [cards |-> g.state.tableau[k].cards]
        newTableau == MapTo([k \in 1..Len(g.state.tableau) |-> moved(k)])
    IN  clearSelection(
            [g EXCEPT
                !.state = [g.state EXCEPT !.tableau = newTableau,
                                          !.moves = g.state.moves + 1],
                !.history = Append(g.history, historyEntry)])

\* moveCards raises a TypeError: targetPile is undefined when the call reaches
\* targetPile.cards
moveCardsThrows(g, targetPileIndex) ==
    /\ g.selectedPile # null /\ g.selectedCardIndex # null
    /\ g.selectedPile # targetPileIndex
    /\ Len(getMovableCards(Pile(g, g.selectedPile), g.selectedCardIndex)) > 0
    /\ targetPileIndex \notin 0..(Len(g.state.tableau) - 1)

\* moveCards; the call that raises the error has assigned nothing before it
moveCards(g, targetPileIndex) ==
    IF g.selectedPile = null \/ g.selectedCardIndex = null THEN g
    ELSE IF g.selectedPile = targetPileIndex THEN clearSelection(g)
    ELSE
    LET cardsToMove == getMovableCards(Pile(g, g.selectedPile), g.selectedCardIndex)
    IN  IF Len(cardsToMove) = 0 THEN clearSelection(g)
        ELSE IF moveCardsThrows(g, targetPileIndex) THEN g
        ELSE IF ~canPlaceCard(At(cardsToMove, 0), TopCard(Pile(g, targetPileIndex)))
        THEN clearSelection(g)
        ELSE checkCompletedSequences(moveAccepted(g, targetPileIndex))

\* deal once it is allowed, up to (not including) its last statement
\* this.checkCompletedSequences()
dealAllowed(g) ==
    LET saved(i) == <<g.state.stock[i]>>
        dealtCards == MapTo([k \in 1..10 |-> saved(k)])
        historyEntry ==
            [type |-> "deal",
             from |-> -1,
             to |-> -1,
             cards |-> <<>>,
             flippedCard |-> noFlip,
             dealtCards |-> dealtCards,
             completedSequences |-> <<>>]
    IN  clearSelection(
            [g EXCEPT !.state = dealFromStock(g.state),
                      !.history = Append(g.history, historyEntry)])

deal(g) ==
    IF ~canDeal(g) THEN g
    ELSE checkCompletedSequences(dealAllowed(g))

\* (a variant of Flat that concatenates from the last array to the first)
RECURSIVE FlatBackwards(_)
FlatBackwards(arrs) ==
    IF Len(arrs) = 0 THEN <<>> ELSE FlatBackwards(Tail(arrs)) \o Head(arrs)

\* dealtCards.flat()
RECURSIVE Flat(_)
Flat(arrs) == IF Len(arrs) = 0 THEN <<>> ELSE Head(arrs) \o Flat(Tail(arrs))

\* (a variant of restoreSequences that puts nothing back)
restoreSequencesMissing(tableau, lastMove) == tableau

\* undo, first part (both branches): the removed runs of lastMove are put back
restoreSequences(tableau, lastMove) ==
    LET restoredPile(k) ==
            IF \E c \in 1..Len(lastMove.completedSequences) :
                   lastMove.completedSequences[c].pileIndex = k - 1
            THEN LET restored ==
                         lastMove.completedSequences[
                             CHOOSE c \in 1..Len(lastMove.completedSequences) :
                                 /\ lastMove.completedSequences[c].pileIndex = k - 1
                                 /\ \A b \in 1..(c - 1) :
                                        lastMove.completedSequences[b].pileIndex # k - 1]
                     cards == tableau[k].cards \o restored.cards
                     cardIdx == IF restored.flippedCard # noFlip
                                THEN FindIndexById(cards, restored.flippedCard[1].cardId)
                                ELSE -1
                 IN  [cards |-> IF cardIdx # -1 THEN FaceDownAt(cards, cardIdx) ELSE cards]
            ELSE tableau[k]
    IN  IF Len(lastMove.completedSequences) > 0
        THEN MapTo([k \in 1..Len(tableau) |-> restoredPile(k)])
        ELSE tableau

\* the loop of undo that splits the target pile into the moved cards and the rest
RECURSIVE splitMoved(_, _, _, _, _)
splitMoved(cards, k, movedCardIds, count, acc) ==
    IF k > Len(cards) THEN acc
    ELSE IF cards[k].id \in movedCardIds /\ Len(acc.cardsToMoveBack) < count
         THEN splitMoved(cards, k + 1, movedCardIds, count,
                         [acc EXCEPT !.cardsToMoveBack = Append(@, cards[k])])
         ELSE splitMoved(cards, k + 1, movedCardIds, count,
                         [acc EXCEPT !.remainingTargetCards = Append(@, cards[k])])

\* (a variant of removeDealt that leaves the dealt cards on the piles)
removeDealtForgotten(tableau) == tableau

\* undo of a deal: the last card of every pile is taken off
removeDealt(tableau) ==
    MapTo([k \in 1..Len(tableau) |-> [cards |-> DropLast(tableau[k].cards, 1)]])

\* (a variant of wonAfterUndo that leaves a won game won)
wonAfterUndoKept(newCompletedSequences) == Len(newCompletedSequences) >= 0

\* (a variant of wonAfterUndo that is off by one)
wonAfterUndoOffByOne(newCompletedSequences) == Len(newCompletedSequences) >= 7

\* undo: gameWon: newCompletedSequences.length === 8
wonAfterUndo(newCompletedSequences) == Len(newCompletedSequences) = 8

\* (a variant of undoEmpty that counts the call as an undone move)
undoEmptyCounted(g) == [g EXCEPT !.state.moves = @ - 1]

\* undo when the history is empty: if (this.history.length === 0) return
undoEmpty(g) == g

undo(g) ==
    IF Len(g.history) = 0 THEN undoEmpty(g)
    ELSE
    LET lastMove == g.history[Len(g.history)]
        popped == DropLast(g.history, 1)
        newCompletedSequences ==
            IF Len(lastMove.completedSequences) > 0
            THEN DropLast(g.state.completedSequences, Len(lastMove.completedSequences))
            ELSE g.state.completedSequences
        restoredTableau == restoreSequences(g.state.tableau, lastMove)
    IN  IF lastMove.type = "deal" /\ Len(lastMove.dealtCards) > 0
        THEN clearSelection(
                [g EXCEPT
                    !.history = popped,
                    !.state = [g.state EXCEPT
                        !.tableau = removeDealt(restoredTableau),
                        !.stock = Flat(lastMove.dealtCards) \o g.state.stock,
                        !.completedSequences = newCompletedSequences,
                        !.gameWon = wonAfterUndo(newCompletedSequences),
                        !.moves = g.state.moves - 1]])
        ELSE
        LET movedCardIds == {lastMove.cards[c].id : c \in 1..Len(lastMove.cards)}
            split == splitMoved(At(restoredTableau, lastMove.to).cards, 1, movedCardIds,
                                Len(lastMove.cards),
                                [cardsToMoveBack |-> <<>>, remainingTargetCards |-> <<>>])
            movedBack(k) ==
                IF k - 1 = lastMove.to THEN [cards |-> split.remainingTargetCards]
                ELSE IF k - 1 = lastMove.from
                THEN LET cards == restoredTableau[k].cards \o split.cardsToMoveBack
                         cardIndex ==
                             IF lastMove.flippedCard # noFlip
                                /\ lastMove.flippedCard[1].pileIndex = k - 1
                             THEN FindIndexById(cards, lastMove.flippedCard[1].cardId)
                             ELSE -1
                     IN  [cards |-> IF cardIndex # -1 THEN FaceDownAt(cards, cardIndex)
                                    ELSE cards]
                ELSE restoredTableau[k]
            newTableau == MapTo([k \in 1..Len(restoredTableau) |-> movedBack(k)])
        IN  clearSelection(
                [g EXCEPT
                    !.history = popped,
                    !.state = [g.state EXCEPT
                        !.tableau = newTableau,
                        !.completedSequences = newCompletedSequences,
                        !.gameWon = wonAfterUndo(newCompletedSequences),
                        !.moves = g.state.moves - 1]])

\* the loop of findBestMove that counts the ordered cards at the top of a target
\* pile, from index j down to 1
RECURSIVE countOrdered(_, _, _)
countOrdered(cards, j, orderedCount) ==
    IF j <= 0 THEN [orderedCount |-> orderedCount, hasUnordered |-> FALSE]
    ELSE LET current == At(cards, j)
             prev == At(cards, j - 1)
         IN  IF ~current.faceUp \/ ~prev.faceUp
             THEN [orderedCount |-> orderedCount, hasUnordered |-> TRUE]
             ELSE IF rankValues[prev.rank] = rankValues[current.rank] + 1
                  THEN countOrdered(cards, j - 1, orderedCount + 1)
                  ELSE [orderedCount |-> orderedCount, hasUnordered |-> TRUE]

\* the entry findBestMove pushes to validMoves for target pile i
validMove(g, i) ==
    LET targetPile == Pile(g, i)
        counted == countOrdered(targetPile.cards, Len(targetPile.cards) - 1, 0)
    IN  [pileIndex |-> i,
         orderedCount |-> IF Len(targetPile.cards) > 0 THEN counted.orderedCount + 1
                          ELSE counted.orderedCount,
         hasUnordered |-> counted.hasUnordered]

\* (a variant of sortsBefore that puts the lowest ordered count first)
sortsBeforeLeast(a, b) ==
    IF a.orderedCount # b.orderedCount THEN a.orderedCount < b.orderedCount
    ELSE a.hasUnordered # b.hasUnordered /\ ~a.hasUnordered

\* the comparator of validMoves.sort is negative: a is placed before b
sortsBefore(a, b) ==
    IF a.orderedCount # b.orderedCount THEN a.orderedCount > b.orderedCount
    ELSE a.hasUnordered # b.hasUnordered /\ ~a.hasUnordered

\* findBestMove: the first entry of the sorted list (Array.prototype.sort is
\* stable: among entries the comparator ranks equal, the lowest pile index)
findBestMove(g, sourcePileIndex, cardIndex) ==
    LET cardsToMove == getMovableCards(Pile(g, sourcePileIndex), cardIndex)
        firstCard == At(cardsToMove, 0)
        targets == {i \in 0..(Len(g.state.tableau) - 1) :
                       /\ i # sourcePileIndex
                       /\ canPlaceCard(firstCard, TopCard(Pile(g, i)))}
    IN  IF Len(cardsToMove) = 0 THEN null
        ELSE IF targets = {} THEN null
        ELSE CHOOSE i \in targets :
                \A k \in targets \ {i} :
                    /\ ~sortsBefore(validMove(g, k), validMove(g, i))
                    /\ (k < i => sortsBefore(validMove(g, i), validMove(g, k)))

\* selectCards raises a TypeError: pile is undefined when the call reaches
\* pile.cards, or card is undefined when it reaches card.faceUp
selectCardsThrows(g, pileIndex, cardIndex) ==
    \/ pileIndex \notin 0..(Len(g.state.tableau) - 1)
    \/ cardIndex \notin 0..(Len(Pile(g, pileIndex).cards) - 1)

\* selectCards; the call that raises the error has assigned nothing before it
selectCards(g, pileIndex, cardIndex, skipAutoMove) ==
    LET pile == Pile(g, pileIndex)
        card == At(pile.cards, cardIndex)
        selected == [g EXCEPT !.selectedPile = pileIndex, !.selectedCardIndex = cardIndex]
    IN  IF selectCardsThrows(g, pileIndex, cardIndex) THEN g
        ELSE IF ~card.faceUp THEN g
        ELSE IF Len(getMovableCards(pile, cardIndex)) = 0 THEN g
        ELSE IF skipAutoMove THEN selected
        ELSE LET bestPile == findBestMove(g, pileIndex, cardIndex)
             IN  IF bestPile # null /\ bestPile # pileIndex
                 THEN moveCards(selected, bestPile)
                 ELSE selected

\* newGame(difficulty), difficulty possibly undefined, with the shuffle's draws js
newGame(g, difficulty, js) ==
    LET diff == IF difficulty = undefined THEN g.state.difficulty ELSE difficulty
        made == initializeGame(diff, g.globalCardId, js)
    IN  [g EXCEPT !.state = made.state,
                  !.initialState = made.state,
                  !.history = <<>>,
                  !.selectedPile = null,
                  !.selectedCardIndex = null,
                  !.hint = noHint,
                  !.globalCardId = made.globalCardId]

\* (a variant of restartGame that keeps the selection)
restartGameKeepingSelection(g) ==
    [g EXCEPT !.state = g.initialState,
              !.history = <<>>]

\* (a variant of restartGame that keeps the history)
restartGameKeepingHistory(g) ==
    [g EXCEPT !.state = g.initialState,
              !.selectedPile = null,
              !.selectedCardIndex = null]

restartGame(g) ==
    [g EXCEPT !.state = g.initialState,
              !.history = <<>>,
              !.selectedPile = null,
              !.selectedCardIndex = null]

\* the hint for "deal" that showHint builds
dealHint == MeaningfulMove(-1, -1, -1, 100, "Deal new cards from stock")

showHint(g) ==
    LET moves == findMeaningfulMoves(g.state)
    IN  IF Len(moves) = 0
        THEN IF canDeal(g) THEN [g EXCEPT !.hint = dealHint]
             ELSE [g EXCEPT !.hint = noHint]
        ELSE [g EXCEPT !.hint = At(moves, 0)]

\* how many callbacks showHint hands to setTimeout: one on each path that sets a
\* hint
showHintTimeouts(g) ==
    IF Len(findMeaningfulMoves(g.state)) = 0 /\ ~canDeal(g) THEN 0 ELSE 1

clearHint(g) == [g EXCEPT !.hint = noHint]

\* the callback that showHint hands to setTimeout
hintTimeout(g) == [g EXCEPT !.hint = noHint]

\* noMovesLeft = $derived(...)
noMovesLeft(g) == ~g.state.gameWon /\ g.state.moves > 0 /\ ~hasValidMoves(g.state)

\* new SpiderSolitaireGame(): the field initialisers run in order, state first and
\* initialState second, each with its own initializeGame('easy')
construct(js1, js2) ==
    LET first == initializeGame("easy", 0, js1)
        second == initializeGame("easy", first.globalCardId, js2)
    IN  [state |-> first.state,
         history |-> <<>>,
         selectedPile |-> null,
         selectedCardIndex |-> null,
         initialState |-> second.state,
         hint |-> noHint,
         globalCardId |-> second.globalCardId]

-----------------------------------------------------------------------------
(* The environment: what Math.random draws in a shuffle, and what the player does *)

\* Draws of Math.floor(Math.random() * (i + 1)), indexed by the loop index i = 1..103
\* of shuffleDeck.  Draws1 deals a game that can be won; Draws2 is an arbitrary one;
\* Draws3 deals a game that the five deals of the stock bring to a standstill.
Draws1 ==
    <<1, 2, 3, 4, 5, 6, 6, 7, 7, 7, 7, 7, 8, 6, 6, 7, 8, 15, 17, 17, 15, 16, 17, 23, 22, 25,
      12, 25, 29, 30, 21, 23, 24, 31, 31, 32, 20, 21, 34, 19, 20, 21, 22, 34, 34, 43, 31, 32, 33, 34, 35, 36,
      37, 45, 47, 56, 55, 47, 47, 50, 48, 56, 48, 44, 57, 49, 54, 59, 47, 49, 62, 69, 72, 56, 69, 74, 67, 68,
      46, 48, 61, 74, 54, 55, 68, 81, 54, 72, 80, 60, 73, 86, 80, 54, 67, 80, 93, 59, 96, 59, 72, 85, 98>>

Draws2 ==
    <<0, 2, 3, 2, 0, 6, 1, 7, 9, 7, 9, 5, 11, 5, 10, 2, 1, 13, 15, 4, 10, 5, 13, 16, 3, 2,
      19, 9, 14, 23, 21, 31, 33, 19, 5, 15, 11, 15, 19, 23, 29, 37, 29, 20, 27, 34, 43, 31, 13, 39, 3, 36,
      4, 45, 35, 6, 23, 12, 40, 36, 37, 6, 23, 39, 15, 18, 53, 37, 17, 5, 28, 6, 50, 74, 73, 7, 74, 28,
      15, 72, 7, 54, 70, 11, 30, 8, 53, 55, 11, 4, 27, 64, 7, 74, 46, 12, 68, 9, 6, 83, 50, 19, 41>>

Draws3 ==
    <<1, 1, 2, 2, 2, 1, 2, 4, 5, 4, 5, 12, 4, 11, 9, 11, 4, 9, 2, 14, 5, 4, 14, 8, 12, 16,
      11, 9, 12, 2, 10, 17, 2, 14, 33, 32, 22, 33, 3, 6, 38, 28, 39, 10, 40, 6, 34, 1, 16, 45, 2, 40,
      9, 21, 51, 2, 45, 55, 27, 51, 9, 50, 60, 56, 33, 5, 15, 56, 51, 39, 49, 20, 62, 5, 1, 44, 14, 26,
      68, 8, 49, 61, 32, 30, 6, 73, 14, 55, 38, 37, 80, 19, 61, 60, 85, 12, 25, 38, 51, 64, 77, 90, 103>>

Draws == {Draws1, Draws2, Draws3}

\* a player's action: a drag of the run at (pile, cardIndex) onto pile target, a
\* click that selects the run at (pile, cardIndex), a deal, a click on the hint
\* button, or a new game
M(pile, cardIndex, target) ==
    [op |-> "move", pile |-> pile, cardIndex |-> cardIndex, target |-> target]
S(pile, cardIndex) ==
    [op |-> "select", pile |-> pile, cardIndex |-> cardIndex, target |-> null]
D == [op |-> "deal", pile |-> null, cardIndex |-> null, target |-> null]
H == [op |-> "showHint", pile |-> null, cardIndex |-> null, target |-> null]
N(difficulty, js) ==
    [op |-> "newGame", pile |-> null, cardIndex |-> null, target |-> null,
     difficulty |-> difficulty, js |-> js]

\* A line of play that wins the game dealt by Draws1
Script1 ==
    <<M(9, 4, 4), M(9, 3, 4), M(9, 2, 4), M(9, 1, 4), M(9, 0, 4), M(8, 4, 4), M(8, 3, 4), M(8, 2, 4),
      M(8, 1, 9), M(6, 4, 4), M(6, 3, 4), M(6, 2, 4), M(6, 1, 4), M(5, 4, 4), M(5, 3, 4), M(7, 4, 4),
      M(7, 3, 4), M(7, 2, 4), M(7, 1, 4), M(0, 5, 4), M(0, 4, 4), M(0, 3, 4), M(0, 2, 4), M(1, 5, 4),
      M(1, 4, 5), M(1, 3, 5), M(1, 2, 5), M(2, 5, 5), M(2, 4, 5), M(2, 3, 5), M(2, 2, 5), M(3, 5, 5),
      M(3, 4, 5), M(3, 3, 5), M(3, 2, 5), D, D, D, D, D,
      M(0, 2, 6), M(0, 1, 6), M(0, 0, 6), M(1, 2, 7), M(1, 1, 7), M(1, 0, 7), M(2, 2, 8), M(2, 1, 8),
      M(2, 0, 8), M(3, 2, 9), M(3, 1, 9), M(3, 0, 9), M(5, 2, 4), M(5, 1, 4), M(5, 0, 4), M(4, 3, 5),
      M(4, 2, 5), M(4, 1, 5), M(4, 0, 5)>>

\* A line of play in a 4-suit game dealt by Draws2: runs are joined across suits
Script2 ==
    <<N("hard", Draws2), M(1, 5, 4), M(8, 4, 4), M(4, 5, 5)>>

\* A 4-suit game dealt by Draws3 in which the stock is dealt out at once: after
\* the fourth deal a run of two suits can join a card of its first card's suit,
\* after the fifth no run can go anywhere but onto a card of another suit
Script3 ==
    <<N("hard", Draws3), D, D, D, D, D>>

-----------------------------------------------------------------------------
(* Observation of a run: besides the game object g, the state the game had when
   its history was last empty, and the last call made on the object *)

\* what kind of history record an undo popped
undoneKind(g) ==
    IF Len(g.history) = 0 THEN "none"
    ELSE LET lastMove == g.history[Len(g.history)]
         IN  IF lastMove.type = "deal"
             THEN IF Len(lastMove.completedSequences) > 0 THEN "dealCompleted" ELSE "deal"
             ELSE IF Len(lastMove.completedSequences) > 0 THEN "moveCompleted"
             ELSE IF lastMove.flippedCard # noFlip THEN "moveFlipped"
             ELSE "move"

Called(op, before, after) ==
    [op |-> op,
     changed |-> after.state # before.state \/ after.history # before.history,
     undone |-> IF op = "undo" THEN undoneKind(before) ELSE "none",
     threw |-> FALSE]

Observed(r, op, g) ==
    [g |-> g,
     timers |-> r.timers,
     startState |-> IF op \in {"newGame", "restartGame", "constructor"}
                    THEN g.state ELSE r.startState,
     lastCall |-> Called(op, r.g, g)]

callSelectCards(r, pileIndex, cardIndex, skipAutoMove) ==
    [Observed(r, "selectCards", selectCards(r.g, pileIndex, cardIndex, skipAutoMove))
        EXCEPT !.lastCall.threw = selectCardsThrows(r.g, pileIndex, cardIndex)]
callMoveCards(r, targetPileIndex) ==
    [Observed(r, "moveCards", moveCards(r.g, targetPileIndex))
        EXCEPT !.lastCall.threw = moveCardsThrows(r.g, targetPileIndex)]
callClearSelection(r) == Observed(r, "clearSelection", clearSelection(r.g))
callDeal(r) == Observed(r, "deal", deal(r.g))
callUndo(r) == Observed(r, "undo", undo(r.g))
callNewGame(r, difficulty, js) == Observed(r, "newGame", newGame(r.g, difficulty, js))
callRestartGame(r) == Observed(r, "restartGame", restartGame(r.g))
callShowHint(r) ==
    [Observed(r, "showHint", showHint(r.g)) EXCEPT !.timers = @ + showHintTimeouts(r.g)]
callClearHint(r) == Observed(r, "clearHint", clearHint(r.g))
\* the event loop runs one of the pending callbacks
ranHintTimeout(r) ==
    [Observed(r, "hintTimeout", hintTimeout(r.g)) EXCEPT !.timers = @ - 1]

constructed ==
    LET g == construct(Draws1, Draws2)
    IN  [g |-> g,
         timers |-> 0,
         startState |-> g.state,
         lastCall |-> [op |-> "constructor", changed |-> TRUE, undone |-> "none",
                       threw |-> FALSE]]

\* handleCardClick(pileIndex, cardIndex, true): a click on a card that is not there
\* is ignored
clicked(r, pileIndex, cardIndex) ==
    IF cardIndex >= Len(Pile(r.g, pileIndex).cards) \/ cardIndex < 0 THEN r
    ELSE callSelectCards(r, pileIndex, cardIndex, TRUE)

played(r, action) ==
    IF action.op = "deal" THEN callDeal(r)
    ELSE IF action.op = "showHint" THEN callShowHint(r)
    ELSE IF action.op = "newGame" THEN callNewGame(r, action.difficulty, action.js)
    ELSE IF action.op = "select" THEN clicked(r, action.pile, action.cardIndex)
    ELSE callMoveCards(clicked(r, action.pile, action.cardIndex), action.target)

\* the run r after actions k..n of script, in order (by halves, to keep the
\* evaluation shallow)
RECURSIVE playedFrom(_, _, _, _)
playedFrom(r, script, k, n) ==
    IF k > n THEN r
    ELSE IF k = n THEN played(r, script[k])
    ELSE LET first == playedFrom(r, script, k, (k + n) \div 2)
         IN  \* (the test has the first half evaluated before the second half starts)
             IF first.g.state.moves >= 0
             THEN playedFrom(first, script, ((k + n) \div 2) + 1, n)
             ELSE first

\* the run after the whole of script, from the constructed object
playedOut(script) == playedFrom(constructed, script, 1, Len(script))

-----------------------------------------------------------------------------
(* The state machine *)

\* how many calls of selectCards, moveCards, deal, newGame and showHint a behaviour makes
\* after its start
MaxOps == 1

\* A behaviour starts after one of these lines of play
Checkpoints ==
    {<<>>,
     Script1,
     SubSeq(Script1, 1, 5) \o <<S(8, 4)>>,
     SubSeq(Script1, 1, 12) \o <<S(6, 1)>>,
     SubSeq(Script2, 1, 1),
     SubSeq(Script2, 1, 1) \o <<S(1, 5)>>,
     Script2 \o <<S(5, 4)>>,
     Script3,
     <<H>>}

G == [state |-> state,
      history |-> history,
      selectedPile |-> selectedPile,
      selectedCardIndex |-> selectedCardIndex,
      initialState |-> initialState,
      hint |-> hint,
      globalCardId |-> globalCardId]

R == [g |-> G, timers |-> timers, startState |-> startState, lastCall |-> lastCall]

\* the variables hold the run r, and no counted call has been made
Starts(r) ==
    /\ state = r.g.state
    /\ history = r.g.history
    /\ selectedPile = r.g.selectedPile
    /\ selectedCardIndex = r.g.selectedCardIndex
    /\ initialState = r.g.initialState
    /\ hint = r.g.hint
    /\ globalCardId = r.g.globalCardId
    /\ timers = r.timers
    /\ startState = r.startState
    /\ lastCall = r.lastCall
    /\ ops = 0

Init == \E script \in Checkpoints : Starts(playedOut(script))

Becomes(r) ==
    /\ state' = r.g.state
    /\ history' = r.g.history
    /\ selectedPile' = r.g.selectedPile
    /\ selectedCardIndex' = r.g.selectedCardIndex
    /\ initialState' = r.g.initialState
    /\ hint' = r.g.hint
    /\ globalCardId' = r.g.globalCardId
    /\ timers' = r.timers
    /\ startState' = r.startState
    /\ lastCall' = r.lastCall

Counted ==
    /\ ops < MaxOps
    /\ ops' = ops + 1

\* the card indices a call for pile pileIndex is made with: those of its cards,
\* and the two next to them
CardIndices(pileIndex) ==
    IF pileIndex \in 0..9 THEN -1..Len(Pile(G, pileIndex).cards) ELSE {0}

\* a caller may pass any number: the pile indices 0..9 and the two next to them
SelectCards ==
    /\ Counted
    /\ \E pileIndex \in -1..10 :
          \E cardIndex \in CardIndices(pileIndex) :
              \E skipAutoMove \in BOOLEAN :
                  Becomes(callSelectCards(R, pileIndex, cardIndex, skipAutoMove))

MoveCards ==
    /\ Counted
    /\ \E targetPileIndex \in -1..10 :
          Becomes(callMoveCards(R, targetPileIndex))

ClearSelection ==
    /\ Becomes(callClearSelection(R))
    /\ UNCHANGED ops

Deal ==
    /\ Counted
    /\ Becomes(callDeal(R))

Undo ==
    /\ Becomes(callUndo(R))
    /\ UNCHANGED ops

NewGame ==
    /\ Counted
    /\ \E difficulty \in Difficulties \cup {undefined} :
          \E js \in Draws :
              Becomes(callNewGame(R, difficulty, js))

RestartGame ==
    /\ Becomes(callRestartGame(R))
    /\ UNCHANGED ops

ShowHint ==
    /\ Counted
    /\ Becomes(callShowHint(R))

ClearHint ==
    /\ Becomes(callClearHint(R))
    /\ UNCHANGED ops

\* five seconds after a showHint that set a hint
HintTimeout ==
    /\ timers > 0
    /\ Becomes(ranHintTimeout(R))
    /\ UNCHANGED ops

Next ==
    \/ SelectCards
    \/ MoveCards
    \/ ClearSelection
    \/ Deal
    \/ Undo
    \/ NewGame
    \/ RestartGame
    \/ ShowHint
    \/ ClearHint
    \/ HintTimeout

Spec == Init /\ [][Next]_vars

-----------------------------------------------------------------------------
(* gameLogic.ts called on its own.  Its exported functions take any pile and any
   card, whether or not a game ever holds them: a call draws its arguments from
   the sets below, the game object stays as constructed, and lastCall records the
   function, its arguments and what it returned. *)

\* how many segments a pile passed to gameLogic.ts is made of at most
MaxSegments == 2

\* the cards of one suit from rank value high down to rank value low, face-up
cardsDown(suit, high, low) ==
    [k \in 1..(high - low + 1) |->
        [suit |-> suit, rank |-> ranks[high - k + 1], faceUp |-> TRUE]]

\* the pieces piles are made of: a whole run K..A in each of two suits, a run with
\* its 7 face-down, a run whose 5 is of another suit, the run K..2, an ace, a 4
Segments ==
    {cardsDown("spades", 13, 1),
     cardsDown("hearts", 13, 1),
     [cardsDown("spades", 13, 1) EXCEPT ![7].faceUp = FALSE],
     [cardsDown("spades", 13, 1) EXCEPT ![9].suit = "hearts"],
     cardsDown("spades", 13, 2),
     cardsDown("spades", 1, 1),
     cardsDown("spades", 4, 4)}

\* the card arrays made of at most n segments, bottom to top
RECURSIVE Joined(_)
Joined(n) ==
    IF n = 0 THEN {<<>>}
    ELSE Joined(n - 1) \cup {below \o segment : below \in Joined(n - 1), segment \in Segments}

\* the Pile of these cards, each with its own id
pileOf(cards) ==
    [cards |-> [k \in 1..Len(cards) |->
                   [id |-> k - 1,
                    suit |-> cards[k].suit,
                    rank |-> cards[k].rank,
                    faceUp |-> cards[k].faceUp]]]

SomePiles == {pileOf(cards) : cards \in Joined(MaxSegments)}

\* every card: each suit and rank, face-up and face-down
SomeCards ==
    {[id |-> 0, suit |-> allSuits[s], rank |-> ranks[r], faceUp |-> f] :
        s \in 1..Len(allSuits), r \in 1..Len(ranks), f \in BOOLEAN}

\* (one call in a behaviour: the functions are pure, a later call would see what
\* the first one saw)
Returned(op, args, result) ==
    /\ lastCall.op = "constructor"
    /\ lastCall' = [op |-> op, changed |-> FALSE, undone |-> "none",
                    args |-> args, result |-> result]
    /\ UNCHANGED <<state, history, selectedPile, selectedCardIndex, initialState,
                   hint, globalCardId, timers, startState, ops>>

CheckForCompletedSequence ==
    \E pile \in SomePiles :
        Returned("checkForCompletedSequence", <<pile>>, checkForCompletedSequence(pile))

GetMovableCards ==
    \E pile \in SomePiles :
        \E startIndex \in 0..Len(pile.cards) :
            Returned("getMovableCards", <<pile, startIndex>>,
                     getMovableCards(pile, startIndex))

CanPlaceCard ==
    \E cardToPlace \in SomeCards :
        \E targetCard \in SomeCards \cup {nullCard} :
            Returned("canPlaceCard", <<cardToPlace, targetCard>>,
                     canPlaceCard(cardToPlace, targetCard))

\* outcomes of a shuffle besides Draws: no card moves, every card is swapped with
\* the first one, every card is swapped with the one before it, and a mix
SomeShuffles ==
    Draws \cup {[i \in 1..103 |-> i],
                [i \in 1..103 |-> 0],
                [i \in 1..103 |-> i - 1],
                [i \in 1..103 |-> (7 * i) % (i + 1)]}

\* initializeGame reads and advances the id counter of the module
InitializeGame ==
    \E difficulty \in Difficulties :
        \E js \in SomeShuffles :
            LET made == initializeGame(difficulty, globalCardId, js)
            IN  /\ lastCall.op = "constructor"
                /\ lastCall' = [op |-> "initializeGame", changed |-> FALSE,
                                undone |-> "none", args |-> <<difficulty, js>>,
                                result |-> made.state]
                /\ globalCardId' = made.globalCardId
                /\ UNCHANGED <<state, history, selectedPile, selectedCardIndex,
                               initialState, hint, timers, startState, ops>>

\* how long a deck is at most when shuffleDeck is called with every outcome of
\* its draws
MaxDeck == 4

\* every outcome of the draws of shuffleDeck on a deck of n cards: j in 0..i for
\* i = 1..n-1
AllDraws(n) == {js \in [1..(n - 1) -> 0..(n - 1)] : \A i \in 1..(n - 1) : js[i] <= i}

\* the decks shuffleDeck is called with, each with the draws of the call: short
\* decks with every outcome, the deck of each difficulty with some outcomes
ShuffleCalls ==
    {<<SubSeq(createDeck("hard", 0).deck, 13 - (n \div 2), 12 - (n \div 2) + n), js>> :
        n \in 0..MaxDeck, js \in UNION {AllDraws(m) : m \in 0..MaxDeck}}
    \cup {<<createDeck(difficulty, 0).deck, js>> :
              difficulty \in Difficulties, js \in SomeShuffles}

ShuffleDeck ==
    \E call \in ShuffleCalls :
        /\ Len(call[2]) = Max(Len(call[1]) - 1, 0)
        /\ lastCall.op = "constructor"
        /\ lastCall' = [op |-> "shuffleDeck", changed |-> FALSE, undone |-> "none",
                        args |-> call,
                        deck |-> deckAfterShuffle(call[1], call[2]),
                        result |-> shuffleDeck(call[1], call[2])]
        /\ UNCHANGED <<state, history, selectedPile, selectedCardIndex, initialState,
                       hint, globalCardId, timers, startState, ops>>

LogicInit == Starts(constructed)

LogicNext ==
    \/ CheckForCompletedSequence
    \/ GetMovableCards
    \/ CanPlaceCard
    \/ InitializeGame
    \/ ShuffleDeck

LogicSpec == LogicInit /\ [][LogicNext]_vars

-----------------------------------------------------------------------------
(* Properties *)

\* the fields of GameState the round trips are stated on
SameGame(a, b) ==
    /\ a.tableau = b.tableau
    /\ a.stock = b.stock
    /\ a.completedSequences = b.completedSequences
    /\ a.gameWon = b.gameWon
    /\ a.moves = b.moves

\* the game object after the run at (pileIndex, cardIndex) is selected
Selected(pileIndex, cardIndex) == selectCards(G, pileIndex, cardIndex, TRUE)

\* every pile index and card index, every target
Piles == 0..9
CardsOf(pileIndex) == 0..(Len(Pile(G, pileIndex).cards) - 1)

\* C1: from every reachable state, for every selection and target that moveCards
\* accepts, the move followed by undo gives back the tableau, stock,
\* completedSequences, gameWon and moves of before the move, and the history of
\* before the move.
C1_MoveThenUndo ==
    \A pileIndex \in Piles : \A cardIndex \in CardsOf(pileIndex) :
        \A targetPileIndex \in Piles :
            LET moved == moveCards(Selected(pileIndex, cardIndex), targetPileIndex)
            IN  Len(moved.history) > Len(history) =>
                    /\ SameGame(undo(moved).state, state)
                    /\ undo(moved).history = history

\* a move that turned the new top card of its source face-up was made and undone
C1_Witness ==
    /\ lastCall.op = "undo"
    /\ lastCall.undone = "moveFlipped"
    /\ ops = 1
    /\ selectedPile = null

\* C2: from every reachable state in which deal is allowed, the deal followed by
\* undo gives back the stock (same cards in the same order, all face-down), the
\* tableau, completedSequences, gameWon and moves of before the deal, whether or
\* not the deal removed completed sequences.
C2_DealThenUndo ==
    canDeal(G) =>
        /\ Len(deal(G).history) = Len(history) + 1
        /\ SameGame(undo(deal(G)).state, state)
        /\ \A i \in 1..Len(undo(deal(G)).state.stock) :
               ~undo(deal(G)).state.stock[i].faceUp

\* a deal that removed completed sequences was made and undone
C2_Witness ==
    /\ lastCall.op = "undo"
    /\ lastCall.undone = "dealCompleted"
    /\ canDeal(G)

Last(arr) == arr[Len(arr)]

\* what C3 says of an operation that went from the current state to the game
\* object done, when raw is the game object right after the cards were moved or
\* dealt, before the completed runs were removed
UndoRestoresRuns(raw, done) ==
    LET lastMove == Last(done.history)
        restored == restoreSequences(done.state.tableau, lastMove)
    IN  Len(lastMove.completedSequences) > 0 =>
            /\ \A c \in 1..Len(lastMove.completedSequences) :
                   LET removed == lastMove.completedSequences[c]
                       before == At(raw.state.tableau, removed.pileIndex).cards
                       back == At(restored, removed.pileIndex).cards
                   IN  /\ Len(removed.cards) = 13
                       /\ back = before
                       /\ SubSeq(back, Len(back) - 12, Len(back)) = removed.cards
                       /\ removed.flippedCard # noFlip =>
                              /\ At(done.state.tableau, removed.pileIndex).cards # <<>>
                              /\ TopCard(At(done.state.tableau, removed.pileIndex)).faceUp
                              /\ ~back[Len(back) - 13].faceUp
            /\ restored = raw.state.tableau
            /\ undo(done).state.completedSequences =
                   SubSeq(done.state.completedSequences, 1,
                          Len(done.state.completedSequences)
                              - Len(lastMove.completedSequences))
            /\ undo(done).state.completedSequences = state.completedSequences
            /\ undo(done).state.tableau = state.tableau

\* C3: when the record undo pops (of a move or of a deal) carries removed runs,
\* undo puts each 13-card run back on its pile at its position and in its order,
\* turns the card the removal had flipped face-down again, drops that many
\* entries from the tail of completedSequences, and after taking the moved or
\* dealt cards back the piles are those of before the operation.
C3_UndoRestoresCompleted ==
    /\ \A pileIndex \in Piles : \A cardIndex \in CardsOf(pileIndex) :
           \A targetPileIndex \in Piles :
               LET selected == Selected(pileIndex, cardIndex)
                   done == moveCards(selected, targetPileIndex)
               IN  Len(done.history) > Len(history) =>
                       UndoRestoresRuns(moveAccepted(selected, targetPileIndex), done)
    /\ canDeal(G) => UndoRestoresRuns(dealAllowed(G), deal(G))

\* the move that completed the first run, and turned the card under it face-up, was
\* undone
C3_Witness ==
    /\ lastCall.op = "undo"
    /\ lastCall.undone = "moveCompleted"
    /\ state.completedSequences = <<>>
    /\ \E pileIndex \in Piles :
           /\ Len(Pile(G, pileIndex).cards) > 13
           /\ ~At(Pile(G, pileIndex).cards, Len(Pile(G, pileIndex).cards) - 14).faceUp

\* C4: whenever the history is empty, the state is the one the game had when the
\* history was last emptied (by the constructor, newGame or restartGame), with no
\* completed sequence, gameWon false and moves 0; undo steps are taken anywhere
\* in a behaviour, so this holds at the end of every chain of undos.
C4_UndoToStart ==
    history = <<>> =>
        /\ SameGame(state, startState)
        /\ state.completedSequences = <<>>
        /\ ~state.gameWon
        /\ state.moves = 0

\* a game was undone back to an empty history
C4_Witness ==
    /\ history = <<>>
    /\ lastCall.op = "undo"
    /\ lastCall.undone # "none"

\* the cards of the tableau piles and of the stock, in one array
CardsInPlay ==
    Flat(MapTo([k \in 1..Len(state.tableau) |-> state.tableau[k].cards])) \o state.stock

\* C5: in every reachable state the cards of the 10 piles, the cards of the stock
\* and 13 cards for every completed sequence add up to 104, and no card id occurs
\* twice across tableau and stock.
C5_CardsConserved ==
    /\ Len(state.tableau) = 10
    /\ Len(CardsInPlay) + 13 * Len(state.completedSequences) = 104
    /\ Cardinality({CardsInPlay[k].id : k \in 1..Len(CardsInPlay)}) = Len(CardsInPlay)

\* a deal was undone in a game with three completed sequences
C5_Witness ==
    /\ lastCall.op = "undo"
    /\ lastCall.undone = "deal"
    /\ Len(state.completedSequences) = 3
    /\ Len(state.stock) = 40

\* C6: in every reachable state gameWon is true exactly when there are 8
\* completed sequences, and there are never more than 8.
C6_WonIffEight ==
    /\ state.gameWon <=> Len(state.completedSequences) = 8
    /\ Len(state.completedSequences) <= 8

\* the operation that completed the eighth sequence was undone
C6_Witness ==
    /\ lastCall.op = "undo"
    /\ lastCall.undone \in {"moveCompleted", "dealCompleted"}
    /\ Len(state.completedSequences) = 7
    /\ ~state.gameWon

\* C7: in every reachable state the stock length is a multiple of 10, 0 or more.
C7_StockMultipleOfTen ==
    /\ Len(state.stock) >= 0
    /\ Len(state.stock) % 10 = 0

\* the last deal of a game was undone: 10 cards are back in the stock
C7_Witness ==
    /\ lastCall.op = "undo"
    /\ lastCall.undone = "deal"
    /\ Len(state.stock) = 10
    /\ Len(history) > 0
    /\ Last(history).type = "deal"

\* the game object with the run at (pileIndex, cardIndex) as its selection,
\* whatever that card is
WithSelection(pileIndex, cardIndex) ==
    [G EXCEPT !.selectedPile = pileIndex, !.selectedCardIndex = cardIndex]

\* C8: with a selection (pileIndex, cardIndex), moveCards(targetPileIndex) leaves
\* the state and the history as they are (moves not incremented, no record
\* pushed) and clears the selection when the target is the selected pile, or
\* getMovableCards gives an empty run, or canPlaceCard rejects the first card of
\* the run on the top card of the target.
C8_RejectedMoveIsNoOp ==
    \A pileIndex \in Piles : \A cardIndex \in CardsOf(pileIndex) :
        \A targetPileIndex \in Piles :
            LET selected == WithSelection(pileIndex, cardIndex)
                run == getMovableCards(Pile(G, pileIndex), cardIndex)
                done == moveCards(selected, targetPileIndex)
            IN  (\/ targetPileIndex = pileIndex
                 \/ Len(run) = 0
                 \/ ~canPlaceCard(At(run, 0), TopCard(Pile(G, targetPileIndex))))
                =>  /\ done.state = state
                    /\ done.history = history
                    /\ done.selectedPile = null
                    /\ done.selectedCardIndex = null

\* moveCards was called with a selection and rejected the move
C8_Witness ==
    /\ lastCall.op = "moveCards"
    /\ ~lastCall.changed
    /\ selectedPile = null
    /\ selectedCardIndex = null
    /\ ops = 1

\* the cards of pile from index cardIndex to the top descend in rank by one
Descends(cards, cardIndex) ==
    \A k \in (cardIndex + 1)..(Len(cards) - 1) :
        rankValues[cards[k].rank] = rankValues[cards[k + 1].rank] + 1

\* what C9 asks of a move for it to be accepted: ranks only
Acceptable(pileIndex, cardIndex, targetPileIndex) ==
    LET source == Pile(G, pileIndex).cards
        target == Pile(G, targetPileIndex).cards
    IN  /\ pileIndex # targetPileIndex
        /\ Descends(source, cardIndex)
        /\ \/ Len(target) = 0
           \/ rankValues[target[Len(target)].rank]
                  = rankValues[source[cardIndex + 1].rank] + 1

\* what C9 says an accepted move has done, done being the game object after it
MoveEffect(pileIndex, cardIndex, targetPileIndex, done) ==
    LET source == Pile(G, pileIndex).cards
        target == Pile(G, targetPileIndex).cards
        run == SubSeq(source, cardIndex + 1, Len(source))
        appended == target \o run
        lastMove == Last(done.history)
        newSource == At(done.state.tableau, pileIndex).cards
        newTarget == At(done.state.tableau, targetPileIndex).cards
    IN  /\ done.history = Append(history, lastMove)
        /\ lastMove.from = pileIndex
        /\ lastMove.to = targetPileIndex
        /\ lastMove.cards = run
        /\ Len(newSource) = cardIndex
        /\ \A k \in 1..cardIndex :
               newSource[k] = IF k = cardIndex THEN [source[k] EXCEPT !.faceUp = TRUE]
                              ELSE source[k]
        /\ lastMove.flippedCard =
               IF cardIndex > 0 /\ ~source[cardIndex].faceUp
               THEN <<[pileIndex |-> pileIndex, cardId |-> source[cardIndex].id]>>
               ELSE <<>>
        /\ IF lastMove.completedSequences = <<>>
           THEN newTarget = appended
           ELSE \* the run was appended, and then a completed run was taken off
                /\ Len(lastMove.completedSequences) = 1
                /\ lastMove.completedSequences[1].pileIndex = targetPileIndex
                /\ lastMove.completedSequences[1].cards
                       = SubSeq(appended, Len(appended) - 12, Len(appended))
                /\ Len(newTarget) = Len(appended) - 13
                /\ \A k \in 1..Len(newTarget) :
                       newTarget[k] = IF k = Len(newTarget)
                                      THEN [appended[k] EXCEPT !.faceUp = TRUE]
                                      ELSE appended[k]
        /\ done.state.moves = state.moves + 1
        /\ done.state.stock = state.stock
        /\ done.state.difficulty = state.difficulty
        /\ \A other \in Piles \ {pileIndex, targetPileIndex} :
               At(done.state.tableau, other) = Pile(G, other)

\* C9: moveCards accepts a move exactly when source and target differ, the cards
\* from the selected index to the top of the source descend in rank by one, and
\* the target is empty or its top card is one rank above the first card of the
\* run, whatever the suits; an accepted move takes the run off the source, appends
\* it to the target in its order, turns the new top card of the source face-up
\* (recording the flip), adds 1 to moves and leaves stock, difficulty and the
\* other piles alone.
C9_MoveAcceptance ==
    \A pileIndex \in Piles : \A cardIndex \in CardsOf(pileIndex) :
        \A targetPileIndex \in Piles :
            LET done == moveCards(WithSelection(pileIndex, cardIndex), targetPileIndex)
            IN  /\ Len(done.history) > Len(history)
                       <=> Acceptable(pileIndex, cardIndex, targetPileIndex)
                /\ Len(done.history) > Len(history)
                       => MoveEffect(pileIndex, cardIndex, targetPileIndex, done)

\* moveCards has put a run on a card of another suit, and turned the new top card
\* of the source face-up
C9_Witness ==
    /\ lastCall.op = "moveCards"
    /\ lastCall.changed
    /\ Len(history) > 0
    /\ Last(history).flippedCard # noFlip
    /\ LET lastMove == Last(history)
           target == At(state.tableau, lastMove.to).cards
       IN  /\ Len(target) > Len(lastMove.cards)
           /\ target[Len(target) - Len(lastMove.cards)].suit # lastMove.cards[1].suit
           /\ target[Len(target)] = lastMove.cards[Len(lastMove.cards)]

\* C10 as stated: dealFromStock gives the state back unchanged when the stock has
\* fewer than 10 cards, and also when a tableau pile is empty.
C10_DealFromStockRejects ==
    (\/ Len(state.stock) < 10
     \/ \E pileIndex \in Piles : Len(Pile(G, pileIndex).cards) = 0)
    => dealFromStock(state) = state

\* C11: undo with an empty history changes nothing (the state with its moves, the
\* history, and the rest of the game object are as before), an undo that found
\* the history empty is never seen to change anything, and moves is never
\* negative in a reachable state.
C11_UndoPastStart ==
    /\ history = <<>> => undo(G) = G
    /\ (lastCall.op = "undo" /\ lastCall.undone = "none") => ~lastCall.changed
    /\ state.moves >= 0

\* undo was called on a new game whose history is empty, while a run was selected
C11_Witness ==
    /\ lastCall.op = "undo"
    /\ lastCall.undone = "none"
    /\ history = <<>>
    /\ state.moves = 0
    /\ selectedPile # null

\* C12: where deal is allowed, right after the cards are dealt (before the check
\* for completed sequences) pile i, for i = 0..9, is what it was with stock[i]
\* turned face-up on top, the stock is what it was without its first 10 cards,
\* moves is one more, and completedSequences, gameWon and difficulty are as before.
C12_DealEffect ==
    canDeal(G) =>
        LET dealt == dealAllowed(G).state
        IN  /\ Len(dealt.tableau) = 10
            /\ \A i \in Piles :
                   At(dealt.tableau, i).cards =
                       Append(Pile(G, i).cards, [At(state.stock, i) EXCEPT !.faceUp = TRUE])
            /\ dealt.stock = SubSeq(state.stock, 11, Len(state.stock))
            /\ dealt.moves = state.moves + 1
            /\ dealt.completedSequences = state.completedSequences
            /\ dealt.gameWon = state.gameWon
            /\ dealt.difficulty = state.difficulty
            /\ deal(G).state.stock = dealt.stock
            /\ deal(G).state.moves = dealt.moves

\* deal has put ten cards of the stock on the piles, and no run was completed
C12_Witness ==
    /\ lastCall.op = "deal"
    /\ lastCall.changed
    /\ Len(state.stock) = 30
    /\ Last(history).type = "deal"
    /\ Last(history).completedSequences = <<>>
    /\ \A i \in Piles :
           TopCard(Pile(G, i)) = [Last(history).dealtCards[i + 1][1] EXCEPT !.faceUp = TRUE]

\* the piles of the game object raw in which checkForCompletedSequence reports a
\* completed run
CompletedPiles(raw) ==
    {i \in Piles : checkForCompletedSequence(At(raw.state.tableau, i)).completed}

\* what C13 says of the sequence check that ends a move or a deal: raw is the game
\* object right after the cards were moved or dealt, done the one the move or deal
\* leaves
SequenceCheckEffect(raw, done) ==
    LET found == CompletedPiles(raw)
        lastMove == Last(done.history)
        added == Len(done.state.completedSequences) - Len(raw.state.completedSequences)
    IN  /\ \A i \in Piles \ found :
               At(done.state.tableau, i) = At(raw.state.tableau, i)
        /\ \A i \in found :
               LET result == checkForCompletedSequence(At(raw.state.tableau, i))
                   before == At(raw.state.tableau, i).cards
                   after == At(done.state.tableau, i).cards
               IN  /\ Len(after) = Len(before) - 13
                   /\ Len(after) = result.startIndex
                   /\ \A k \in 1..Len(after) :
                          after[k] = IF k = Len(after) THEN [before[k] EXCEPT !.faceUp = TRUE]
                                     ELSE before[k]
                   /\ \E c \in 1..Len(lastMove.completedSequences) :
                          LET removed == lastMove.completedSequences[c]
                          IN  /\ removed.pileIndex = i
                              /\ removed.cards = SubSeq(before, Len(after) + 1, Len(after) + 13)
                              /\ removed.suit = result.suit
                              /\ \A k \in 1..13 : removed.cards[k].suit = removed.suit
                              /\ removed.flippedCard =
                                     IF Len(after) > 0 /\ ~before[Len(after)].faceUp
                                     THEN <<[cardId |-> before[Len(after)].id]>>
                                     ELSE <<>>
                              /\ done.state.completedSequences[
                                     Len(raw.state.completedSequences) + c].suit = result.suit
        /\ added = Cardinality(found)
        /\ Len(lastMove.completedSequences) = Cardinality(found)
        /\ \A c \in 1..Len(lastMove.completedSequences) :
               /\ lastMove.completedSequences[c].pileIndex \in found
               /\ \A b \in 1..(c - 1) :
                      lastMove.completedSequences[b].pileIndex
                          < lastMove.completedSequences[c].pileIndex
        /\ SubSeq(done.state.completedSequences, 1, Len(raw.state.completedSequences))
               = raw.state.completedSequences
        /\ Len(done.history) = Len(raw.history)
        /\ DropLast(done.history, 1) = DropLast(raw.history, 1)
        /\ [lastMove EXCEPT !.completedSequences = <<>>] = Last(raw.history)
        /\ done.state.moves = raw.state.moves
        /\ done.state.moves = state.moves + 1
        /\ done.state.stock = raw.state.stock
        /\ done.state.gameWon <=> Len(done.state.completedSequences) = 8

\* C13: after every accepted move and every allowed deal, each pile in which
\* checkForCompletedSequence reports a completed run has lost exactly those 13
\* cards and has its new top card face-up, every other pile is untouched,
\* completedSequences has one more entry of the run's suit per such pile, the
\* removals (pile index, the 13 cards, suit, id of the flipped card) are in the
\* history record of that move or deal, moves has gone up by one only, and
\* gameWon is true exactly when completedSequences has 8 entries.
C13_SequenceCheck ==
    /\ \A pileIndex \in Piles : \A cardIndex \in CardsOf(pileIndex) :
           \A targetPileIndex \in Piles :
               LET selected == Selected(pileIndex, cardIndex)
                   done == moveCards(selected, targetPileIndex)
               IN  Len(done.history) > Len(history) =>
                       SequenceCheckEffect(moveAccepted(selected, targetPileIndex), done)
    /\ canDeal(G) => SequenceCheckEffect(dealAllowed(G), deal(G))

\* a deal has completed runs in two piles at once
C13_Witness ==
    /\ lastCall.op = "deal"
    /\ lastCall.changed
    /\ Last(history).type = "deal"
    /\ Len(Last(history).completedSequences) = 2
    /\ Len(state.completedSequences) = 3

\* the 13 cards of cards from index i on are face-up, of one suit, and read
\* K, Q, J, 10, ..., 2, A
IsWindow(cards, i) ==
    /\ i >= 0
    /\ i + 13 <= Len(cards)
    /\ \A j \in 0..12 :
           /\ At(cards, i + j).faceUp
           /\ At(cards, i + j).suit = At(cards, i).suit
           /\ rankValues[At(cards, i + j).rank] = 13 - j

\* C14: checkForCompletedSequence(pile) returns completed = true exactly when the
\* pile holds 13 consecutive face-up cards of one suit reading K..A bottom to
\* top; for a pile of fewer than 13 cards it returns completed = false and
\* startIndex = -1; when completed, startIndex is the index of the King of such
\* a window and suit is the suit of that window.
C14_CompletedIffWindow ==
    lastCall.op = "checkForCompletedSequence" =>
        LET cards == lastCall.args[1].cards
            result == lastCall.result
        IN  /\ result.completed <=> \E i \in 0..(Len(cards) - 13) : IsWindow(cards, i)
            /\ Len(cards) < 13 => (~result.completed /\ result.startIndex = -1)
            /\ result.completed =>
                   /\ IsWindow(cards, result.startIndex)
                   /\ At(cards, result.startIndex).rank = "K"
                   /\ result.suit = At(cards, result.startIndex).suit

\* checkForCompletedSequence found a run at the bottom of a pile, under a card that
\* belongs to no run
C14_Witness ==
    /\ lastCall.op = "checkForCompletedSequence"
    /\ lastCall.result.completed
    /\ lastCall.result.startIndex = 0
    /\ Len(lastCall.args[1].cards) = 14

\* C15 as stated: when a pile holds more than one valid window,
\* checkForCompletedSequence returns the one with the smallest start index.
C15_BottomMostWindow ==
    (lastCall.op = "checkForCompletedSequence" /\ lastCall.result.completed) =>
        \A i \in 0..(Len(lastCall.args[1].cards) - 13) :
            IsWindow(lastCall.args[1].cards, i) => lastCall.result.startIndex <= i

\* C16 as stated: getMovableCards(pile, startIndex) returns a non-empty run only
\* if every card from startIndex to the top of the pile is face-up and the ranks
\* descend by one from each card to the next, and the empty run otherwise.
C16_MovableOnlyFaceUp ==
    lastCall.op = "getMovableCards" =>
        LET cards == lastCall.args[1].cards
            startIndex == lastCall.args[2]
            movable == /\ startIndex < Len(cards)
                       /\ \A k \in (startIndex + 1)..Len(cards) : cards[k].faceUp
                       /\ Descends(cards, startIndex)
        IN  lastCall.result = IF movable THEN SubSeq(cards, startIndex + 1, Len(cards))
                              ELSE <<>>

\* C17: canPlaceCard(cardToPlace, targetCard) is true when targetCard is null, and
\* for a card as target it is true exactly when the target's rank is the next
\* one after the card's rank in A, 2, ..., 10, J, Q, K, for every pair of ranks,
\* whatever the suits and the faces of the two cards.
C17_PlaceByRankOnly ==
    lastCall.op = "canPlaceCard" =>
        LET cardToPlace == lastCall.args[1]
            targetCard == lastCall.args[2]
        IN  lastCall.result <=>
                \/ targetCard = nullCard
                \/ \E r \in 1..12 : /\ ranks[r] = cardToPlace.rank
                                     /\ ranks[r + 1] = targetCard.rank

\* canPlaceCard accepted a card on a face-down card of another suit
C17_Witness ==
    /\ lastCall.op = "canPlaceCard"
    /\ lastCall.result
    /\ lastCall.args[2] # nullCard
    /\ lastCall.args[1].suit # lastCall.args[2].suit
    /\ ~lastCall.args[2].faceUp
    /\ lastCall.args[1].faceUp

\* the cards of a GameState's piles and stock, in one array
CardsOfState(st) ==
    Flat(MapTo([k \in 1..Len(st.tableau) |-> st.tableau[k].cards])) \o st.stock

\* what C18 says of a GameState st dealt from the deck createDeck made
WellDealt(st, deck) ==
    /\ Len(st.tableau) = 10
    /\ \A col \in 0..9 :
           LET cards == At(st.tableau, col).cards
           IN  /\ Len(cards) = IF col <= 3 THEN 6 ELSE 5
               /\ \A k \in 1..Len(cards) : cards[k].faceUp <=> k = Len(cards)
    /\ Len(st.stock) = 50
    /\ \A k \in 1..Len(st.stock) : ~st.stock[k].faceUp
    /\ st.moves = 0
    /\ ~st.gameWon
    /\ st.completedSequences = <<>>
    /\ Len(deck) = 104
    /\ LET held == CardsOfState(st)
       IN  /\ Len(held) = 104
           /\ Len(held) - Len(st.stock) = 54
           /\ Cardinality({deck[d] : d \in 1..Len(deck)}) = 104
           /\ {[held[k] EXCEPT !.faceUp = FALSE] : k \in 1..Len(held)}
                  = {deck[d] : d \in 1..Len(deck)}

\* C18: for every difficulty and every outcome of the shuffle, initializeGame
\* gives 10 piles of 6, 6, 6, 6, 5, 5, 5, 5, 5, 5 cards, in each pile the top card
\* face-up and the others face-down, a stock of 50 face-down cards, moves 0,
\* gameWon false, no completed sequence, and each of the 104 cards of the deck
\* (the one createDeck made for this call) exactly once in tableau and stock.
C18_InitializeGame ==
    lastCall.op = "initializeGame" =>
        /\ WellDealt(lastCall.result,
                     createDeck(lastCall.args[1], globalCardId - 104).deck)
        /\ lastCall.result.difficulty = lastCall.args[1]

\* initializeGame has dealt a 4-suit game from a deck that the shuffle left in the
\* order of its creation
C18_Witness ==
    /\ lastCall.op = "initializeGame"
    /\ lastCall.args[1] = "hard"
    /\ lastCall.args[2] = [i \in 1..103 |-> i]
    /\ lastCall.result.stock[50].rank = "K"
    /\ lastCall.result.stock[50].suit = "clubs"
    /\ globalCardId = 312

\* the ids of the cards of an array
IdsOf(cards) == {cards[k].id : k \in 1..Len(cards)}

\* C19: for every difficulty createDeck returns 104 cards, made of 8 sub-decks of
\* 13 cards that each hold every rank A..K once in one suit; every card is
\* face-down; the ids of the deck are pairwise distinct, distinct from the ids of
\* the deck the next createDeck call returns, and distinct from the ids of the
\* cards of the games created before.
C19_CreateDeck ==
    \A difficulty \in Difficulties :
        LET made == createDeck(difficulty, globalCardId)
            deck == made.deck
        IN  /\ Len(deck) = 104
            /\ \A sub \in 0..7 :
                   /\ \A k \in 1..13 : deck[13 * sub + k].suit = deck[13 * sub + 1].suit
                   /\ {deck[13 * sub + k].rank : k \in 1..13} = {ranks[r] : r \in 1..13}
            /\ \A k \in 1..Len(deck) : ~deck[k].faceUp
            /\ Cardinality(IdsOf(deck)) = 104
            /\ \A next \in Difficulties :
                   IdsOf(createDeck(next, made.globalCardId).deck) \cap IdsOf(deck) = {}
            /\ IdsOf(deck) \cap (IdsOf(CardsInPlay) \cup IdsOf(CardsOfState(initialState))) = {}

\* a fourth deck was created: the two of the constructor and two new games
C19_Witness ==
    /\ lastCall.op = "newGame"
    /\ globalCardId = 416
    /\ \A k \in 1..Len(state.stock) : state.stock[k].id >= 312
    /\ Cardinality(IdsOf(CardsInPlay)) = 104

\* how many cards of an array are of a suit
CountSuit(cards, suit) == Cardinality({k \in 1..Len(cards) : cards[k].suit = suit})

\* the cards of a suit a game holds or has completed
SuitInGame(suit) ==
    CountSuit(CardsInPlay, suit) + 13 * CountSuit(state.completedSequences, suit)

\* the suits of a deck are those of distribution: the difficulty's cards per suit
Distributed(distribution) ==
    /\ \A difficulty \in Difficulties : \A s \in 1..Len(allSuits) :
           CountSuit(createDeck(difficulty, globalCardId).deck, allSuits[s])
               = distribution[difficulty][s]
    /\ \A s \in 1..Len(allSuits) :
           SuitInGame(allSuits[s]) = distribution[state.difficulty][s]

\* C20 as stated: createDeck gives 104/0/0/0 cards per suit for easy, 52/52 over
\* two suits for medium, and 8/8/8/8 for hard.
C20_SuitsAsStated ==
    Distributed([easy |-> <<104, 0, 0, 0>>,
                 medium |-> <<52, 52, 0, 0>>,
                 hard |-> <<8, 8, 8, 8>>])

\* C20, amended: createDeck gives 104/0/0/0 cards per suit for easy, 52/52 over
\* two suits for medium, and 26/26/26/26 for hard (two sub-decks of 13 per suit);
\* the cards a game holds and has completed are distributed the same way.
C20_SuitDistribution ==
    Distributed([easy |-> <<104, 0, 0, 0>>,
                 medium |-> <<52, 52, 0, 0>>,
                 hard |-> <<26, 26, 26, 26>>])

\* a 4-suit game is in play, three moves in
C20_Witness ==
    /\ state.difficulty = "hard"
    /\ state.moves = 3
    /\ Len(history) = 3
    /\ SuitInGame("clubs") = 26

\* how often a card occurs in an array
Occurrences(cards, card) == Cardinality({k \in 1..Len(cards) : cards[k] = card})

\* C21: for every outcome of the draws j in 0..i, shuffleDeck returns an array of
\* the length of its input in which every card (its id with it) occurs as often
\* as in the input, and the input array is as it was.
C21_ShuffleIsPermutation ==
    lastCall.op = "shuffleDeck" =>
        LET deck == lastCall.args[1]
            shuffled == lastCall.result
        IN  /\ Len(shuffled) = Len(deck)
            /\ \A k \in 1..Len(deck) :
                   Occurrences(shuffled, deck[k]) = Occurrences(deck, deck[k])
            /\ IdsOf(shuffled) = IdsOf(deck)
            /\ lastCall.deck = deck

\* shuffleDeck has put the last of four cards first
C21_Witness ==
    /\ lastCall.op = "shuffleDeck"
    /\ Len(lastCall.args[1]) = 4
    /\ lastCall.result[1] = lastCall.args[1][4]
    /\ lastCall.result # lastCall.args[1]

\* the run at (pileIndex, cardIndex) may be moved to pile targetPileIndex: the card
\* is face-up, the cards from it to the top descend by one rank each, and the
\* target is another pile that is empty or has a top card one rank higher
LegalMove(pileIndex, cardIndex, targetPileIndex) ==
    LET cards == Pile(G, pileIndex).cards
        target == Pile(G, targetPileIndex).cards
    IN  /\ targetPileIndex # pileIndex
        /\ At(cards, cardIndex).faceUp
        /\ Descends(cards, cardIndex)
        /\ \/ Len(target) = 0
           \/ rankValues[target[Len(target)].rank] = rankValues[At(cards, cardIndex).rank] + 1

LegalMoves ==
    {move \in UNION {{<<pileIndex, cardIndex, targetPileIndex>> :
                         cardIndex \in CardsOf(pileIndex), targetPileIndex \in Piles} :
                     pileIndex \in Piles} :
        LegalMove(move[1], move[2], move[3])}

DealingUnavailable ==
    \/ Len(state.stock) < 10
    \/ \E pileIndex \in Piles : Len(Pile(G, pileIndex).cards) = 0

\* a legal move that findMeaningfulMoves passes over: it lands on a card, turns no
\* card face-up, and either lands on a card of another suit or takes the run off
\* a face-up card of its own suit that is one rank higher
WithoutProgress(pileIndex, cardIndex, targetPileIndex) ==
    LET cards == Pile(G, pileIndex).cards
        target == Pile(G, targetPileIndex).cards
        first == At(cards, cardIndex)
    IN  /\ Len(target) > 0
        /\ cardIndex > 0 => At(cards, cardIndex - 1).faceUp
        /\ \/ target[Len(target)].suit # first.suit
           \/ /\ cardIndex > 0
              /\ At(cards, cardIndex - 1).suit = first.suit
              /\ rankValues[At(cards, cardIndex - 1).rank] = rankValues[first.rank] + 1

\* C22 as stated: hasValidMoves(state) returns false only when dealing is unavailable
\* and no run can legally be moved to another pile
C22_FalseOnlyWithoutLegalMove ==
    ~hasValidMoves(state) => (DealingUnavailable /\ LegalMoves = {})

\* C22 amended: hasValidMoves(state) returns false exactly when dealing is
\* unavailable and every legal move is one without progress (it lands on a card,
\* turns no card face-up, and lands on another suit or splits a same-suit run)
C22_FalseIffNoProgress ==
    ~hasValidMoves(state) <=>
        /\ DealingUnavailable
        /\ \A move \in LegalMoves : WithoutProgress(move[1], move[2], move[3])

\* reached: hasValidMoves is false in a state where a run can legally be moved
C22_Witness ==
    /\ ~hasValidMoves(state)
    /\ noMovesLeft(G)
    /\ LegalMoves # {}

\* the card directly below the run at (pileIndex, cardIndex) is face-down
FaceDownBelowRun(pileIndex, cardIndex) ==
    cardIndex > 0 /\ ~At(Pile(G, pileIndex).cards, cardIndex - 1).faceUp

\* the priority C23 gives the legal move, 0 for a move that is to be left out
StatedPriority(pileIndex, cardIndex, targetPileIndex) ==
    LET cards == Pile(G, pileIndex).cards
        target == Pile(G, targetPileIndex).cards
        first == At(cards, cardIndex)
        below == At(cards, cardIndex - 1)
    IN  IF Len(target) = 0
        THEN IF FaceDownBelowRun(pileIndex, cardIndex) THEN 80 ELSE 50
        ELSE IF FaceDownBelowRun(pileIndex, cardIndex)
             THEN IF first.suit = target[Len(target)].suit THEN 100 ELSE 70
        ELSE IF /\ first.suit = target[Len(target)].suit
                /\ ~(/\ cardIndex > 0
                      /\ below.faceUp
                      /\ below.suit = first.suit
                      /\ rankValues[below.rank] = rankValues[first.rank] + 1)
             THEN 60
        ELSE 0

\* the legal moves that C23 leaves out of the result
LeftOut ==
    {move \in LegalMoves : StatedPriority(move[1], move[2], move[3]) = 0}

\* C23: findMeaningfulMoves(state) holds every legal move once with the priority
\* stated (80/50 onto an empty pile, 100/70 when a card is turned face-up, 60 onto
\* the same suit unless the run is taken off its own same-suit run), leaves out
\* every other legal move, and holds nothing else
C23_Priorities ==
    LET found == findMeaningfulMoves(state)
        stated == {move \in LegalMoves : StatedPriority(move[1], move[2], move[3]) > 0}
    IN  /\ Len(found) = Cardinality(stated)
        /\ \A move \in stated :
              \E k \in 1..Len(found) :
                  /\ found[k].sourcePile = move[1]
                  /\ found[k].cardIndex = move[2]
                  /\ found[k].targetPile = move[3]
                  /\ found[k].priority = StatedPriority(move[1], move[2], move[3])

\* reached: a state whose result holds a move of priority 60, a move that turns a
\* card face-up and a move onto an empty pile, while a legal move is left out
C23_Witness ==
    LET found == findMeaningfulMoves(state)
        priorities == {found[k].priority : k \in 1..Len(found)}
    IN  /\ 60 \in priorities
        /\ priorities \cap {100, 70} # {}
        /\ priorities \cap {80, 50} # {}
        /\ LeftOut # {}

\* the place of a move in the order the loops of findMeaningfulMoves find moves
DiscoveredBefore(a, b) ==
    \/ a.sourcePile < b.sourcePile
    \/ a.sourcePile = b.sourcePile /\ a.cardIndex < b.cardIndex
    \/ a.sourcePile = b.sourcePile /\ a.cardIndex = b.cardIndex /\ a.targetPile < b.targetPile

\* C24: the list findMeaningfulMoves(state) returns is ordered by non-increasing
\* priority, moves of equal priority by source pile, card index and target pile;
\* after showHint the hint is a move of the list with the highest priority, or the
\* deal hint when the list is empty and canDeal holds, or null otherwise
C24_OrderAndHint ==
    LET found == findMeaningfulMoves(state)
    IN  /\ \A j \in 1..Len(found) : \A k \in (j + 1)..Len(found) :
              /\ found[j].priority >= found[k].priority
              /\ found[j].priority = found[k].priority
                    => DiscoveredBefore(found[j], found[k])
        /\ lastCall.op = "showHint" =>
              IF Len(found) > 0
              THEN /\ \E k \in 1..Len(found) : hint = found[k]
                   /\ \A k \in 1..Len(found) : found[k].priority <= hint.priority
              ELSE IF canDeal(G) THEN hint = dealHint
              ELSE hint = noHint

\* reached: showHint has set the hint in a state whose list has moves of equal
\* priority and moves of different priorities
C24_Witness ==
    LET found == findMeaningfulMoves(state)
    IN  /\ lastCall.op = "showHint"
        /\ hint # noHint
        /\ \E j, k \in 1..Len(found) :
              j < k /\ found[j].priority = found[k].priority
        /\ \E j, k \in 1..Len(found) : found[j].priority > found[k].priority

\* how many cards the run at the top of cards has: from the top card downwards,
\* as long as the suit stays and the rank goes up by one
RunAtTop(cards) ==
    LET n == Len(cards)
        joins(k) == /\ cards[k].suit = cards[n].suit
                    /\ rankValues[cards[k].rank] = rankValues[cards[k + 1].rank] + 1
    IN  IF n = 0 THEN 0
        ELSE CHOOSE length \in 1..n :
                /\ \A k \in (n - length + 1)..(n - 1) : joins(k)
                /\ length < n => ~joins(n - length)

\* the game once move (an entry of findMeaningfulMoves) is made, before
\* moveCards goes on to take completed runs off the piles
Executed(move) == moveAccepted(Selected(move.sourcePile, move.cardIndex), move.targetPile)

\* C25: every move that findMeaningfulMoves(state) returns with priority 60, when
\* executed, makes the same-suit descending run at the top of its target pile
\* longer than it was
C25_SixtyGrowsRun ==
    LET found == findMeaningfulMoves(state)
    IN  \A k \in 1..Len(found) :
            found[k].priority = 60 =>
                RunAtTop(Pile(Executed(found[k]), found[k].targetPile).cards)
                    > RunAtTop(Pile(G, found[k].targetPile).cards)

\* C26: selectCards with a pile index or a card index out of range, and moveCards
\* with a valid selection and a target pile index out of range, raise no error and
\* leave the game as it is
C26_MalformedInputIgnored ==
    /\ \A pileIndex \in -1..10 : \A cardIndex \in CardIndices(pileIndex) :
          (pileIndex \notin Piles \/ cardIndex \notin CardsOf(pileIndex)) =>
              /\ ~selectCardsThrows(G, pileIndex, cardIndex)
              /\ selectCards(G, pileIndex, cardIndex, FALSE) = G
    /\ \A pileIndex \in Piles : \A cardIndex \in CardsOf(pileIndex) :
          \A targetPileIndex \in {-1, 10} :
              Selected(pileIndex, cardIndex).selectedPile # null =>
                  /\ ~moveCardsThrows(Selected(pileIndex, cardIndex), targetPileIndex)
                  /\ SameGame(moveCards(Selected(pileIndex, cardIndex),
                                        targetPileIndex).state, state)

\* C27: state.moves equals history.length in every reachable state
C27_MovesCountHistory ==
    state.moves = Len(history)

\* reached: a move that also took a completed run off a pile has been counted
\* once and recorded once
C27_Witness ==
    /\ lastCall.op = "moveCards"
    /\ lastCall.changed
    /\ Len(history) > 1
    /\ Len(Last(history).completedSequences) > 0
    /\ state.moves = Len(history)

\* C28: in every pile the face-down cards lie below all face-up cards, and the
\* top card of a pile that has cards is face-up
C28_FaceDownAtBottom ==
    \A pileIndex \in Piles :
        LET cards == Pile(G, pileIndex).cards
        IN  /\ Len(cards) > 0 => cards[Len(cards)].faceUp
            /\ \A j \in 1..Len(cards) : \A k \in (j + 1)..Len(cards) :
                  cards[j].faceUp => cards[k].faceUp

\* reached: an undo has put a completed run back on a pile, above the pile's
\* face-down cards
C28_Witness ==
    /\ lastCall.op = "undo"
    /\ lastCall.undone \in {"moveCompleted", "dealCompleted"}
    /\ \E pileIndex \in Piles :
          LET cards == Pile(G, pileIndex).cards
          IN  \E k \in 1..(Len(cards) - 12) :
                  /\ ~cards[k].faceUp
                  /\ cards[k + 1].faceUp

\* the number of Deal records in the history
DealsInHistory == Cardinality({k \in 1..Len(history) : history[k].type = "deal"})

\* C29: every card of the stock is face-down, the stock holds 50 cards less 10 for
\* each Deal record in the history, and the history has at most 5 Deal records
C29_StockCountsDeals ==
    /\ \A k \in 1..Len(state.stock) : ~state.stock[k].faceUp
    /\ Len(state.stock) = 50 - 10 * DealsInHistory
    /\ DealsInHistory <= 5

\* reached: an undo has put the cards of a deal back on a stock that earlier
\* deals had drawn from
C29_Witness ==
    /\ lastCall.op = "undo"
    /\ lastCall.undone \in {"deal", "dealCompleted"}
    /\ DealsInHistory \in 1..4
    /\ Len(state.stock) = 50 - 10 * DealsInHistory

\* the games that checkCompletedSequences is called on from the current state:
\* the game after each move that moveCards accepts and after the deal, before
\* completed runs are taken off
BeforeSequenceCheck ==
    {moveAccepted(Selected(move[1], move[2]), move[3]) : move \in LegalMoves}
        \cup (IF canDeal(G) THEN {dealAllowed(G)} ELSE {})

\* C30: a run that checkCompletedSequences finds is the top 13 cards of its pile,
\* and between operations no pile holds 13 face-up cards of one suit from K to A
C30_CompletedRunsAtTop ==
    /\ \A g \in BeforeSequenceCheck : \A pileIndex \in Piles :
          LET result == checkForCompletedSequence(Pile(g, pileIndex))
          IN  result.completed =>
                  result.startIndex + 13 = Len(Pile(g, pileIndex).cards)
    /\ \A pileIndex \in Piles :
          \A i \in 0..(Len(Pile(G, pileIndex).cards) - 13) :
              ~IsWindow(Pile(G, pileIndex).cards, i)

\* reached: a move or a deal has completed a run that lay on other cards, and the
\* run has been taken off
C30_Witness ==
    /\ lastCall.op \in {"moveCards", "deal"}
    /\ lastCall.changed
    /\ Len(history) > 0
    /\ \E c \in 1..Len(Last(history).completedSequences) :
          Len(Pile(G, Last(history).completedSequences[c].pileIndex).cards) > 0

\* C31: when state.gameWon is true the piles and the stock are empty; selectCards,
\* moveCards and deal leave the state as it is; undo, newGame and restartGame
\* change it, and undo sets gameWon back to false
C31_WonGame ==
    state.gameWon =>
        /\ \A pileIndex \in Piles : Len(Pile(G, pileIndex).cards) = 0
        /\ Len(state.stock) = 0
        /\ \A pileIndex \in -1..10 : \A cardIndex \in CardIndices(pileIndex) :
              \A skipAutoMove \in BOOLEAN :
                  selectCards(G, pileIndex, cardIndex, skipAutoMove).state = state
        /\ \A targetPileIndex \in -1..10 : moveCards(G, targetPileIndex).state = state
        /\ deal(G).state = state
        /\ undo(G).state # state
        /\ ~undo(G).state.gameWon
        /\ restartGame(G).state # state
        /\ \A difficulty \in Difficulties \cup {undefined} : \A js \in Draws :
              newGame(G, difficulty, js).state # state

\* reached: the move that takes the eighth run off has been made
C31_Witness ==
    /\ state.gameWon
    /\ lastCall.op = "moveCards"
    /\ lastCall.changed
    /\ Len(state.completedSequences) = 8

\* C32: restartGame yields the tableau and stock the game had when it started
\* (startState: restartGame itself is claimed to bring that state back), with
\* moves = 0, no completed sequence, gameWon false, an empty history and no
\* selection, for the constructor's game as well as for a game started by newGame
C32_RestartRestoresDeal ==
    LET restarted == restartGame(G)
    IN  /\ restarted.state.tableau = startState.tableau
        /\ restarted.state.stock = startState.stock
        /\ restarted.state.moves = 0
        /\ restarted.state.completedSequences = <<>>
        /\ ~restarted.state.gameWon
        /\ restarted.history = <<>>
        /\ restarted.selectedPile = null
        /\ restarted.selectedCardIndex = null

\* the game after selectCards(move.sourcePile, move.cardIndex, true) and
\* moveCards(move.targetPile)
Carried(move) == moveCards(Selected(move.sourcePile, move.cardIndex), move.targetPile)

\* C33: every move that findMeaningfulMoves returns is accepted when it is carried
\* out (the state changes and one history record is pushed), and it turns a
\* face-down card of the source pile face up exactly when its priority is 80, 100
\* or 70
C33_HintedMovesExecutable ==
    LET moves == findMeaningfulMoves(state)
    IN  \A m \in 1..Len(moves) :
            LET move == moves[m]
                after == Carried(move)
                before == Pile(G, move.sourcePile).cards
                left == Pile(after, move.sourcePile).cards
                flipped == /\ move.cardIndex > 0
                           /\ ~At(before, move.cardIndex - 1).faceUp
                           /\ At(left, move.cardIndex - 1).faceUp
            IN  /\ after.state # state
                /\ Len(after.history) = Len(history) + 1
                /\ SubSeq(after.history, 1, Len(history)) = history
                /\ Len(left) = move.cardIndex
                /\ flipped <=> move.priority \in {80, 100, 70}
                /\ flipped <=> Last(after.history).flippedCard # noFlip
                /\ ~flipped => left = Slice(before, 0, move.cardIndex)

\* reached: a state whose list has a move that flips a card and a move that does
\* not
C33_Witness ==
    LET moves == findMeaningfulMoves(state)
    IN  /\ \E m \in 1..Len(moves) : moves[m].priority \in {80, 100, 70}
        /\ \E m \in 1..Len(moves) : moves[m].priority \in {50, 60}
        /\ \E m \in 1..Len(moves) :
               Last(Carried(moves[m]).history).flippedCard # noFlip

\* C34: a timer callback that runs while the timer of a later showHint call is
\* still pending (callbacks of equal delay run in the order they were set) leaves
\* the hint displayed: a hint is cleared only by its own timer, clearHint or
\* newGame
C34_LaterHintKept ==
    [][(timers > 1 /\ timers' = timers - 1) => hint' = hint]_vars

\* C35: a hint that is not null describes an action that is legal now: a deal
\* hint (sourcePile = -1) is there only while canDeal is true, and a card-move
\* hint names a move that moveCards accepts in the current state
C35_HintIsLegalNow ==
    hint # noHint =>
        IF hint.sourcePile = -1 THEN canDeal(G)
        ELSE /\ Carried(hint).state # state
             /\ Len(Carried(hint).history) = Len(history) + 1

\* the number of cards at the top of a pile that are face up and descend by one
\* rank from each to the next
OrderedAtTop(cards) ==
    LET ordered(n) ==
            /\ \A k \in (Len(cards) - n + 1)..Len(cards) : cards[k].faceUp
            /\ \A k \in (Len(cards) - n + 1)..(Len(cards) - 1) :
                   rankValues[cards[k].rank] = rankValues[cards[k + 1].rank] + 1
    IN  CHOOSE n \in 0..Len(cards) :
            ordered(n) /\ \A more \in (n + 1)..Len(cards) : ~ordered(more)

\* the piles other than pileIndex on which canPlaceCard accepts the card at
\* (pileIndex, cardIndex)
Accepting(pileIndex, cardIndex) ==
    {i \in Piles \ {pileIndex} :
        canPlaceCard(At(Pile(G, pileIndex).cards, cardIndex), TopCard(Pile(G, i)))}

\* C36: selectCards(pile, index) with auto-move: nothing changes if the card is
\* face down or its run is not movable; otherwise the run is moved to the pile
\* findBestMove returns and the selection ends null, or, if findBestMove returns
\* null, the selection becomes (pile, index).  findBestMove returns null iff no
\* other pile accepts the run's first card, and otherwise an accepting pile other
\* than the source with the largest number of rank-ordered face-up cards at its
\* top, so never an empty pile while a non-empty one accepts
C36_AutoMove ==
    \A pileIndex \in Piles : \A cardIndex \in CardsOf(pileIndex) :
        LET after == selectCards(G, pileIndex, cardIndex, FALSE)
            run == getMovableCards(Pile(G, pileIndex), cardIndex)
            best == findBestMove(G, pileIndex, cardIndex)
            accepting == Accepting(pileIndex, cardIndex)
        IN  IF ~At(Pile(G, pileIndex).cards, cardIndex).faceUp \/ Len(run) = 0
            THEN after = G
            ELSE /\ best = null <=> accepting = {}
                 /\ best = null =>
                        after = [G EXCEPT !.selectedPile = pileIndex,
                                          !.selectedCardIndex = cardIndex]
                 /\ best # null =>
                        /\ best \in accepting
                        /\ \A i \in accepting :
                               OrderedAtTop(Pile(G, best).cards)
                                   >= OrderedAtTop(Pile(G, i).cards)
                        /\ Len(Pile(G, best).cards) = 0 =>
                               \A i \in accepting : Len(Pile(G, i).cards) = 0
                        /\ Len(after.history) = Len(history) + 1
                        /\ Last(after.history).from = pileIndex
                        /\ Last(after.history).to = best
                        /\ Last(after.history).cards = run
                        /\ after.state.moves = state.moves + 1
                        /\ Len(Pile(after, pileIndex).cards) = cardIndex
                        /\ after.selectedPile = null
                        /\ after.selectedCardIndex = null

\* reached: a selectCards call has moved a run by itself, and in the state it left
\* some run has the choice between an empty pile and non-empty piles with
\* different counts
C36_Witness ==
    /\ lastCall.op = "selectCards"
    /\ lastCall.changed
    /\ selectedPile = null
    /\ \E pileIndex \in Piles : \E cardIndex \in CardsOf(pileIndex) :
           /\ At(Pile(G, pileIndex).cards, cardIndex).faceUp
           /\ Len(getMovableCards(Pile(G, pileIndex), cardIndex)) > 0
           /\ \E i, k \in Accepting(pileIndex, cardIndex) :
                  /\ OrderedAtTop(Pile(G, i).cards) > OrderedAtTop(Pile(G, k).cards)
                  /\ Len(Pile(G, k).cards) > 0
           /\ \E k \in Accepting(pileIndex, cardIndex) : Len(Pile(G, k).cards) = 0

\* C37: a selection that is not null names an existing face-up card of the
\* current tableau whose run to the top of its pile descends by one rank from
\* card to card; and after every call that changed the state or the history
\* (a move, a deal, an undo, newGame, restartGame) the selection is null
C37_SelectionValid ==
    /\ (selectedPile # null \/ selectedCardIndex # null) =>
           /\ selectedPile \in Piles
           /\ selectedCardIndex \in CardsOf(selectedPile)
           /\ At(Pile(G, selectedPile).cards, selectedCardIndex).faceUp
           /\ Descends(Pile(G, selectedPile).cards, selectedCardIndex)
    /\ lastCall.changed => selectedPile = null /\ selectedCardIndex = null

\* reached: a selectCards call has left a run of several cards selected
C37_Witness ==
    /\ lastCall.op = "selectCards"
    /\ selectedPile \in Piles
    /\ selectedCardIndex \in CardsOf(selectedPile)
    /\ selectedCardIndex < Len(Pile(G, selectedPile).cards) - 1
    /\ ops > 0

\* C38: deal() with fewer than 10 cards in the stock or with an empty pile leaves
\* the game object (state, moves, history) as it is; otherwise it pushes exactly
\* one record of type "deal" whose dealtCards are the first 10 cards of the stock,
\* the k-th being the card put on pile k
C38_DealRecord ==
    LET after == deal(G)
        record == Last(after.history)
        completed(pileIndex) ==
            \E c \in 1..Len(record.completedSequences) :
                record.completedSequences[c].pileIndex = pileIndex
    IN  IF DealingUnavailable THEN after = G
        ELSE /\ Len(after.history) = Len(history) + 1
             /\ SubSeq(after.history, 1, Len(history)) = history
             /\ record.type = "deal"
             /\ Len(record.dealtCards) = 10
             /\ \A k \in 1..10 :
                    /\ record.dealtCards[k] = <<state.stock[k]>>
                    /\ ~completed(k - 1) =>
                           /\ Len(Pile(after, k - 1).cards) = Len(Pile(G, k - 1).cards) + 1
                           /\ Last(Pile(after, k - 1).cards).id = state.stock[k].id
             /\ after.state.stock = SubSeq(state.stock, 11, Len(state.stock))
             /\ after.state.moves = state.moves + 1

\* reached: deal() was called with 10 or more cards in the stock and an empty
\* pile, and did nothing
C38_Witness ==
    /\ lastCall.op = "deal"
    /\ ~lastCall.changed
    /\ Len(state.stock) >= 10
    /\ \E pileIndex \in Piles : Len(Pile(G, pileIndex).cards) = 0
====
